---------------------------- MODULE Spec2Model ----------------------------
(***************************************************************************)
(* Podster: the transcript extraction pipeline.                            *)
(*                                                                         *)
(*   server/caption_scraper.py            CaptionScraper ("server")        *)
(*   attached_assets/caption_scraper.py   CaptionScraper ("attached")      *)
(*   server/complete_caption_scraper.py   extract_complete_transcript      *)
(*   attached_assets/youtube_handler.py   YouTubeHandler                   *)
(*   server/youtube_handler.py            YouTubeHandler (plain variant)   *)
(*                                                                         *)
(* A text is a sequence of characters, each character a one-element        *)
(* string (NBSP stands for U+00A0).  The regular expressions of the code   *)
(* are written out as scanners over such sequences, with Python's          *)
(* leftmost, non-overlapping substitution order.                           *)
(***************************************************************************)
EXTENDS Integers, Sequences, FiniteSets, TLC

(***************************************************************************)
(* Characters                                                              *)
(***************************************************************************)
NBSP == "NBSP"

UpperChars ==
    <<"A","B","C","D","E","F","G","H","I","J","K","L","M",
      "N","O","P","Q","R","S","T","U","V","W","X","Y","Z">>

LowerChars ==
    <<"a","b","c","d","e","f","g","h","i","j","k","l","m",
      "n","o","p","q","r","s","t","u","v","w","x","y","z">>

DigitChars == {"0","1","2","3","4","5","6","7","8","9"}

UpperSet == {UpperChars[i] : i \in 1..Len(UpperChars)}

LowerSet == {LowerChars[i] : i \in 1..Len(LowerChars)}

\* \s of the re module on str patterns, and the characters str.strip() removes
IsSpace(c) == c \in {" ", "\n", "\r", "\t", NBSP}

\* \w of the re module
IsWordChar(c) == c \in UpperSet \cup LowerSet \cup DigitChars \cup {"_"}

\* str.lower() of one character (what re.IGNORECASE compares)
LowerOf(c) ==
    IF c \in UpperSet
    THEN LowerChars[CHOOSE i \in 1..Len(UpperChars) : UpperChars[i] = c]
    ELSE c

(***************************************************************************)
(* Scanners.  A substitution recurses over the matches it replaces, not    *)
(* over the characters, and takes the leftmost match at or after the end   *)
(* of the previous one, as re.sub and str.replace do.                      *)
(***************************************************************************)
SetMin(S) == CHOOSE x \in S : \A y \in S : x <= y

SetMax(S) == CHOOSE x \in S : \A y \in S : x >= y

\* the least element of a set of indices, 0 if it is empty
FirstOf(S) == IF S = {} THEN 0 ELSE SetMin(S)

\* s[i:] as Python slices it (i is a 1-based index here)
From(s, i) == SubSeq(s, i, Len(s))

\* s[i] exists and is c
CharAt(s, i, c) == i >= 1 /\ i <= Len(s) /\ s[i] = c

\* pat occurs in s at index i
MatchAt(s, i, pat) ==
    /\ i >= 1
    /\ i + Len(pat) - 1 <= Len(s)
    /\ \A k \in 1..Len(pat) : s[i + k - 1] = pat[k]

\* the same, ignoring case
MatchAtCI(s, i, pat) ==
    /\ i >= 1
    /\ i + Len(pat) - 1 <= Len(s)
    /\ \A k \in 1..Len(pat) : LowerOf(s[i + k - 1]) = LowerOf(pat[k])

\* Python's  pat in s
Contains(s, pat) == \E i \in 1..Len(s) : MatchAt(s, i, pat)

\* Python's  pat in s.lower()  (pat in lower case)
ContainsCI(s, pat) == \E i \in 1..Len(s) : MatchAtCI(s, i, pat)

\* str.startswith(pat)
StartsWith(s, pat) == MatchAt(s, 1, pat)

\* str.strip()
Strip(s) ==
    LET keep == {i \in 1..Len(s) : ~IsSpace(s[i])}
    IN  IF keep = {} THEN <<>> ELSE SubSeq(s, SetMin(keep), SetMax(keep))

\* len(s.strip())
TrimmedLen(s) == Len(Strip(s))

RECURSIVE ReplaceFrom(_, _, _, _)
ReplaceFrom(s, i, pat, rep) ==
    LET k == FirstOf({j \in i..Len(s) : MatchAt(s, j, pat)})
    IN  IF k = 0 THEN From(s, i)
        ELSE SubSeq(s, i, k - 1) \o rep \o ReplaceFrom(s, k + Len(pat), pat, rep)

\* str.replace(pat, rep)
Replace(s, pat, rep) == ReplaceFrom(s, 1, pat, rep)

RECURSIVE RemoveCIFrom(_, _, _)
RemoveCIFrom(s, i, pat) ==
    LET k == FirstOf({j \in i..Len(s) : MatchAtCI(s, j, pat)})
    IN  IF k = 0 THEN From(s, i)
        ELSE SubSeq(s, i, k - 1) \o RemoveCIFrom(s, k + Len(pat), pat)

\* re.sub(<literal pat>, '', s, flags=re.IGNORECASE)
RemoveCI(s, pat) == RemoveCIFrom(s, 1, pat)

\* first index >= i whose character is not white space (Len(s)+1 if none)
SkipSpace(s, i) ==
    LET k == FirstOf({j \in i..Len(s) : ~IsSpace(s[j])})
    IN  IF k = 0 THEN (IF i > Len(s) THEN i ELSE Len(s) + 1) ELSE k

\* re.sub(r'\s+', ' ', s): of every run of white space the first character
\* stays, as a space
CollapseWs(s) ==
    LET idx  == [i \in 1..Len(s) |-> i]
        keep == SelectSeq(idx, LAMBDA i : ~IsSpace(s[i]) \/ i = 1 \/ ~IsSpace(s[i - 1]))
    IN  [k \in 1..Len(keep) |-> IF IsSpace(s[keep[k]]) THEN " " ELSE s[keep[k]]]

\* .*?<close> from i: the index of the first close at or after i with no line
\* break before it, 0 if there is none ('.' does not match a line break)
LazyClose(s, i, close) ==
    LET k == FirstOf({j \in i..Len(s) : s[j] = close \/ s[j] = "\n"})
    IN  IF k # 0 /\ s[k] = close THEN k ELSE 0

RECURSIVE RemoveGroupFrom(_, _, _, _)
RemoveGroupFrom(s, i, open, close) ==
    LET k == FirstOf({j \in i..Len(s) : s[j] = open /\ LazyClose(s, j + 1, close) # 0})
    IN  IF k = 0 THEN From(s, i)
        ELSE SubSeq(s, i, k - 1)
                 \o RemoveGroupFrom(s, LazyClose(s, k + 1, close) + 1, open, close)

\* re.sub(r'\[.*?\]', '', s)  and  re.sub(r'\(.*?\)', '', s)
RemoveGroup(s, open, close) == RemoveGroupFrom(s, 1, open, close)

\* index of the first c at or after i, 0 if there is none
FirstChar(s, i, c) == FirstOf({j \in i..Len(s) : s[j] = c})

\* the index of the '>' closing a tag <[^>]+> that opens at i, 0 if none
TagEnd(s, i) ==
    IF CharAt(s, i, "<") /\ FirstChar(s, i + 1, ">") > i + 1
    THEN FirstChar(s, i + 1, ">")
    ELSE 0

RECURSIVE SubTagsFrom(_, _, _)
SubTagsFrom(s, i, rep) ==
    LET k == FirstOf({j \in i..Len(s) : TagEnd(s, j) # 0})
    IN  IF k = 0 THEN From(s, i)
        ELSE SubSeq(s, i, k - 1) \o rep \o SubTagsFrom(s, TagEnd(s, k) + 1, rep)

\* re.sub(r'<[^>]+>', rep, s)
SubTags(s, rep) == SubTagsFrom(s, 1, rep)

\* \b between index i-1 and index i of s
WordBoundary(s, i) ==
    LET before == i - 1 >= 1 /\ i - 1 <= Len(s) /\ IsWordChar(s[i - 1])
        after  == i >= 1 /\ i <= Len(s) /\ IsWordChar(s[i])
    IN  before # after

\* one of the words matches at i as \b(w1|w2|..)\b, ignoring case
WordAt(s, i, words) ==
    \E w \in words :
        /\ MatchAtCI(s, i, w)
        /\ WordBoundary(s, i)
        /\ WordBoundary(s, i + Len(w))

RECURSIVE RemoveWordsFrom(_, _, _, _)
RemoveWordsFrom(s, i, words, n) ==
    LET k == FirstOf({j \in i..Len(s) : WordAt(s, j, words)})
    IN  IF k = 0 THEN From(s, i)
        ELSE SubSeq(s, i, k - 1) \o RemoveWordsFrom(s, k + n, words, n)

\* re.sub(r'\b(w1|w2)\b', '', s, flags=re.IGNORECASE) for words of n letters
RemoveWords(s, words, n) == RemoveWordsFrom(s, 1, words, n)

\* ([.!?])\s*([A-Z]) at i: the index of the capital letter, 0 if no match
PunctAt(s, i) ==
    LET j == SkipSpace(s, i + 1)
    IN  IF i >= 1 /\ i <= Len(s) /\ s[i] \in {".", "!", "?"}
           /\ j <= Len(s) /\ s[j] \in UpperSet
        THEN j ELSE 0

RECURSIVE PunctFrom(_, _)
PunctFrom(s, i) ==
    LET k == FirstOf({j \in i..Len(s) : PunctAt(s, j) # 0})
    IN  IF k = 0 THEN From(s, i)
        ELSE SubSeq(s, i, k - 1) \o <<s[k], " ", s[PunctAt(s, k)]>>
                 \o PunctFrom(s, PunctAt(s, k) + 1)

\* re.sub(r'([.!?])\s*([A-Z])', r'\1 \2', s)
PunctSpacing(s) == PunctFrom(s, 1)

RECURSIVE JoinFrom(_, _, _)
JoinFrom(parts, i, sep) ==
    IF i > Len(parts) THEN <<>>
    ELSE IF i = Len(parts) THEN parts[i]
    ELSE parts[i] \o sep \o JoinFrom(parts, i + 1, sep)

\* ' '.join(parts)
JoinSp(parts) == JoinFrom(parts, 1, <<" ">>)

\* Python's  chunk * n
Rep(chunk, n) ==
    [k \in 1..(n * Len(chunk)) |-> chunk[((k - 1) % Len(chunk)) + 1]]

RECURSIVE SplitFrom(_, _)
SplitFrom(s, i) ==
    LET e == FirstChar(s, i, "\n")
    IN  IF e = 0 THEN <<From(s, i)>>
        ELSE <<SubSeq(s, i, e - 1)>> \o SplitFrom(s, e + 1)

\* s.split('\n')
SplitLines(s) == SplitFrom(s, 1)

\* str.isdigit()
IsDigitStr(s) == Len(s) > 0 /\ \A i \in 1..Len(s) : s[i] \in DigitChars

\* index after the run of digits that starts at i (i itself if there is none)
DigitsEnd(s, i) ==
    LET k == FirstOf({j \in i..Len(s) : s[j] \notin DigitChars})
    IN  IF i < 1 \/ i > Len(s) THEN i
        ELSE IF k = 0 THEN Len(s) + 1 ELSE k

\* \d+:\d+\.\d+ at i: the index after the match, 0 if there is none
TimeAt(s, i) ==
    LET a == DigitsEnd(s, i)
        b == DigitsEnd(s, a + 1)
        c == DigitsEnd(s, b + 1)
    IN  IF a > i /\ CharAt(s, a, ":") /\ b > a + 1 /\ CharAt(s, b, ".") /\ c > b + 1
        THEN c ELSE 0

\* \d+:\d+:\d+\.\d+ at i: the index after the match, 0 if there is none
ClockAt(s, i) ==
    LET a == DigitsEnd(s, i)
    IN  IF a > i /\ CharAt(s, a, ":") THEN TimeAt(s, a + 1) ELSE 0

\* \[\d+:\d+:\d+\.\d+\s*-->\s*\d+:\d+:\d+\.\d+\] at i: the index after it, or 0
CueAt(s, i) ==
    IF ~CharAt(s, i, "[") \/ ClockAt(s, i + 1) = 0 THEN 0
    ELSE LET a == SkipSpace(s, ClockAt(s, i + 1))
         IN  IF ~MatchAt(s, a, <<"-", "-", ">">>) THEN 0
             ELSE LET b == SkipSpace(s, a + 3)
                      c == ClockAt(s, b)
                  IN  IF c # 0 /\ CharAt(s, c, "]") THEN c + 1 ELSE 0

RECURSIVE RemoveCuesFrom(_, _)
RemoveCuesFrom(s, i) ==
    LET k == FirstOf({j \in i..Len(s) : CueAt(s, j) # 0})
    IN  IF k = 0 THEN From(s, i)
        ELSE SubSeq(s, i, k - 1) \o RemoveCuesFrom(s, CueAt(s, k))

RECURSIVE RemoveTimesFrom(_, _)
RemoveTimesFrom(s, i) ==
    LET k == FirstOf({j \in i..Len(s) : TimeAt(s, j) # 0})
    IN  IF k = 0 THEN From(s, i)
        ELSE SubSeq(s, i, k - 1) \o RemoveTimesFrom(s, TimeAt(s, k))

(***************************************************************************)
(* Text normalizers                                                        *)
(***************************************************************************)
\* CaptionScraper._clean_text, server/caption_scraper.py
CleanTextServer(text) ==
    IF Len(text) = 0 THEN <<>>
    ELSE LET t1 == Replace(text, <<"&","a","m","p",";">>, <<"&">>)
             t2 == Replace(t1, <<"&","l","t",";">>, <<"<">>)
             t3 == Replace(t2, <<"&","g","t",";">>, <<">">>)
             t4 == Replace(t3, <<"&","q","u","o","t",";">>, <<"\"">>)
             t5 == Replace(t4, <<"&","#","3","9",";">>, <<"'">>)
             t6 == Replace(t5, <<"&","a","p","o","s",";">>, <<"'">>)
             t7 == Replace(t6, <<"&","n","b","s","p",";">>, <<" ">>)
             t8 == Replace(t7, <<NBSP>>, <<" ">>)
             t9 == Replace(t8, <<"\n">>, <<" ">>)
             t10 == CollapseWs(t9)
             t11 == RemoveCI(t10, <<"[","M","u","s","i","c","]">>)
             t12 == RemoveCI(t11, <<"[","A","p","p","l","a","u","s","e","]">>)
         IN  Strip(t12)

\* CaptionScraper._clean_text, attached_assets/caption_scraper.py
CleanTextAttached(text) ==
    IF Len(text) = 0 THEN <<>>
    ELSE LET t1 == Replace(text, <<"\\","n">>, <<" ">>)
             t2 == Replace(t1, <<"\\","r">>, <<" ">>)
             t3 == Replace(t2, <<"\\","\"">>, <<"\"">>)
             t4 == Replace(t3, <<"\\","'">>, <<"'">>)
             t5 == SubTags(t4, <<>>)
             t6 == CollapseWs(t5)
         IN  Strip(t6)

\* YouTubeHandler._clean_transcript_text
CleanTranscriptText(text) ==
    LET t1 == RemoveGroup(text, "[", "]")
        t2 == RemoveGroup(t1, "(", ")")
        t3 == RemoveWords(t2, {<<"u","h">>}, 2)
        t4 == RemoveWords(t3, {<<"u","m">>}, 2)
        t5 == RemoveWords(t4, {<<"e","r">>}, 2)
        t6 == CollapseWs(t5)
    IN  Strip(t6)

\* the loop of _combine_transcript_segments: the cleaned text of every segment
\* whose stripped text is not empty
RECURSIVE CleanedSegments(_, _)
CleanedSegments(segments, i) ==
    IF i > Len(segments) THEN <<>>
    ELSE LET text == Strip(segments[i])
         IN  IF Len(text) > 0
             THEN <<CleanTranscriptText(text)>> \o CleanedSegments(segments, i + 1)
             ELSE CleanedSegments(segments, i + 1)

\* YouTubeHandler._combine_transcript_segments; a segment is its 'text'
CombineTranscriptSegments(transcript_list) ==
    IF Len(transcript_list) = 0 THEN <<>>
    ELSE LET full_text == JoinSp(CleanedSegments(transcript_list, 1))
         IN  Strip(PunctSpacing(CollapseWs(full_text)))

\* YouTubeHandler._clean_whisper_transcript
CleanWhisperTranscript(text) ==
    LET t1 == CollapseWs(text)
        t2 == RemoveCuesFrom(t1, 1)
        t3 == RemoveTimesFrom(t2, 1)
        t4 == RemoveCI(t3, <<"[","M","U","S","I","C","]">>)
        t5 == RemoveCI(t4, <<"[","A","P","P","L","A","U","S","E","]">>)
        t6 == RemoveCI(t5, <<"[","L","A","U","G","H","T","E","R","]">>)
        t7 == RemoveCI(t6, <<"[","I","N","A","U","D","I","B","L","E","]">>)
        t8 == RemoveCI(t7, <<"[","U","N","C","L","E","A","R","]">>)
        t9 == RemoveWords(t8, {<<"u","h">>, <<"u","m">>, <<"e","r">>, <<"a","h">>}, 2)
        t10 == PunctSpacing(t9)
        t11 == CollapseWs(t10)
    IN  Strip(t11)

(***************************************************************************)
(* Line-oriented parser                                                    *)
(***************************************************************************)
\* the loop of _parse_srt_content over the lines from index i on
RECURSIVE SrtTextLines(_, _)
SrtTextLines(lines, i) ==
    IF i > Len(lines) THEN <<>>
    ELSE LET line == Strip(lines[i])
             cleaned_line == Strip(RemoveGroup(SubTags(line, <<>>), "[", "]"))
         IN  IF IsDigitStr(line) \/ Contains(line, <<"-","-",">">>) \/ Len(line) = 0
             THEN SrtTextLines(lines, i + 1)
             ELSE IF Len(cleaned_line) > 0
                  THEN <<cleaned_line>> \o SrtTextLines(lines, i + 1)
                  ELSE SrtTextLines(lines, i + 1)

\* YouTubeHandler._parse_srt_content
ParseSrtContent(srt_content) ==
    LET text_lines == SrtTextLines(SplitLines(srt_content), 1)
    IN  Strip(PunctSpacing(CollapseWs(JoinSp(text_lines))))

(***************************************************************************)
(* Timed-text XML                                                          *)
(***************************************************************************)
\* <text[^>]*> at i: the index of its '>', 0 if there is none
TextOpenEnd(s, i) ==
    IF MatchAt(s, i, <<"<","t","e","x","t">>) THEN FirstChar(s, i + 5, ">") ELSE 0

\* <text[^>]*>([^<]+)</text> at i: the index of the '<' of </text>, 0 if none
PlainClose(s, i) ==
    LET g == TextOpenEnd(s, i)
        k == IF g = 0 THEN 0 ELSE FirstChar(s, g + 1, "<")
    IN  IF g # 0 /\ k > g + 1 /\ MatchAt(s, k, <<"<","/","t","e","x","t",">">>)
        THEN k ELSE 0

\* <text[^>]*><!\[CDATA\[([^\]]+)\]\]></text> at i: the index of the first ']'
\* after the data, 0 if there is no match
CdataClose(s, i) ==
    LET g == TextOpenEnd(s, i)
        c == IF g = 0 THEN 0 ELSE FirstChar(s, g + 10, "]")
    IN  IF g # 0 /\ MatchAt(s, g + 1, <<"<","!","[","C","D","A","T","A","[">>)
           /\ c > g + 10
           /\ MatchAt(s, c, <<"]","]",">","<","/","t","e","x","t",">">>)
        THEN c ELSE 0

\* (?:<[^/][^>]*>[^<]*</[^>]*>[^<]*)*</text> from the '<' at p (0: no '<' left):
\* the index of the '<' of the closing </text>, 0 if there is no match
RECURSIVE NestedEnd(_, _)
NestedEnd(s, p) ==
    IF p = 0 THEN 0
    ELSE IF p + 1 <= Len(s) /\ s[p + 1] # "/"
    THEN LET g == FirstChar(s, p + 2, ">")
             q == IF g = 0 THEN 0 ELSE FirstChar(s, g + 1, "<")
             r == IF q = 0 \/ ~CharAt(s, q + 1, "/") THEN 0
                  ELSE FirstChar(s, q + 2, ">")
         IN  IF r = 0 THEN 0 ELSE NestedEnd(s, FirstChar(s, r + 1, "<"))
    ELSE IF MatchAt(s, p, <<"<","/","t","e","x","t",">">>) THEN p ELSE 0

\* <text[^>]*>([^<]*(?:<[^/][^>]*>[^<]*</[^>]*>[^<]*)*)</text> at i: the index
\* of the '<' of the closing </text>, 0 if there is no match
NestedClose(s, i) ==
    LET g == TextOpenEnd(s, i)
    IN  IF g = 0 THEN 0 ELSE NestedEnd(s, FirstChar(s, g + 1, "<"))

RECURSIVE FindAllTextFrom(_, _)
FindAllTextFrom(s, i) ==
    LET k == FirstOf({j \in i..Len(s) : PlainClose(s, j) # 0})
    IN  IF k = 0 THEN <<>>
        ELSE <<SubSeq(s, TextOpenEnd(s, k) + 1, PlainClose(s, k) - 1)>>
                 \o FindAllTextFrom(s, PlainClose(s, k) + 7)

\* re.findall(r'<text[^>]*>([^<]+)</text>', s, re.DOTALL)
FindAllText(s) == FindAllTextFrom(s, 1)

RECURSIVE FindAllCdataFrom(_, _)
FindAllCdataFrom(s, i) ==
    LET k == FirstOf({j \in i..Len(s) : CdataClose(s, j) # 0})
    IN  IF k = 0 THEN <<>>
        ELSE <<SubSeq(s, TextOpenEnd(s, k) + 10, CdataClose(s, k) - 1)>>
                 \o FindAllCdataFrom(s, CdataClose(s, k) + 10)

\* re.findall(r'<text[^>]*><!\[CDATA\[([^\]]+)\]\]></text>', s, re.DOTALL)
FindAllCdata(s) == FindAllCdataFrom(s, 1)

RECURSIVE FindAllNestedFrom(_, _)
FindAllNestedFrom(s, i) ==
    LET k == FirstOf({j \in i..Len(s) : NestedClose(s, j) # 0})
    IN  IF k = 0 THEN <<>>
        ELSE <<SubSeq(s, TextOpenEnd(s, k) + 1, NestedClose(s, k) - 1)>>
                 \o FindAllNestedFrom(s, NestedClose(s, k) + 7)

\* re.findall of the third pattern of the attached _parse_xml_captions
FindAllNested(s) == FindAllNestedFrom(s, 1)

\* CaptionScraper._parse_xml_captions, server/caption_scraper.py
ParseXmlCaptionsServer(xml_content) ==
    LET text_matches == FindAllText(xml_content)
        raw_transcript == JoinSp(text_matches)
        spaced == Replace(Replace(raw_transcript, <<NBSP>>, <<" ">>), <<"\n">>, <<" ">>)
    IN  IF Len(text_matches) > 0
        THEN Strip(CollapseWs(spaced))
        ELSE CleanTextServer(SubTags(xml_content, <<" ">>))

\* the inner loop of the attached _parse_xml_captions: the cleaned matches
\* longer than two characters
RECURSIVE KeptMatches(_, _)
KeptMatches(matches, i) ==
    IF i > Len(matches) THEN <<>>
    ELSE LET cleaned == CleanTextAttached(matches[i])
         IN  IF Len(cleaned) > 2
             THEN <<cleaned>> \o KeptMatches(matches, i + 1)
             ELSE KeptMatches(matches, i + 1)

\* all_text of the attached _parse_xml_captions: the fragments of the three
\* patterns, one pattern after the other
XmlFragmentsAttached(xml_content) ==
    KeptMatches(FindAllText(xml_content), 1)
        \o KeptMatches(FindAllCdata(xml_content), 1)
        \o KeptMatches(FindAllNested(xml_content), 1)

\* CaptionScraper._parse_xml_captions, attached_assets/caption_scraper.py
ParseXmlCaptionsAttached(xml_content) ==
    LET all_text == XmlFragmentsAttached(xml_content)
    IN  IF Len(all_text) > 0
        THEN JoinSp(all_text)
        ELSE CleanTextAttached(SubTags(xml_content, <<" ">>))

\* the loop of _parse_vtt_captions over the lines from index i on
RECURSIVE VttTextLines(_, _)
VttTextLines(lines, i) ==
    IF i > Len(lines) THEN <<>>
    ELSE LET line == Strip(lines[i])
             cleaned == CleanTextAttached(line)
         IN  IF \/ Len(line) = 0
                \/ StartsWith(line, <<"W","E","B","V","T","T">>)
                \/ Contains(line, <<"-","-",">">>)
                \/ IsDigitStr(line)
                \/ StartsWith(line, <<"N","O","T","E">>)
             THEN VttTextLines(lines, i + 1)
             ELSE IF Len(cleaned) > 1
                  THEN <<cleaned>> \o VttTextLines(lines, i + 1)
                  ELSE VttTextLines(lines, i + 1)

\* CaptionScraper._parse_vtt_captions, attached_assets/caption_scraper.py
ParseVttCaptions(vtt_content) ==
    JoinSp(VttTextLines(SplitLines(vtt_content), 1))

(***************************************************************************)
(* html.unescape, for the character references of the model's alphabet:    *)
(* &amp &lt &gt &quot &nbsp (the semicolon optional, as in HTML5), &apos;   *)
(* and &#39 (the semicolon optional).                                      *)
(***************************************************************************)
EntityNames ==
    << <<"a","m","p">>, <<"l","t">>, <<"g","t">>, <<"q","u","o","t">>,
       <<"n","b","s","p">>, <<"#","3","9">> >>

EntityChars == <<"&", "<", ">", "\"", NBSP, "'">>

\* the number of the character reference at the '&' at i, 0 if there is none
EntityAt(s, i) ==
    IF ~CharAt(s, i, "&") THEN 0
    ELSE IF MatchAt(s, i + 1, <<"a","p","o","s",";">>) THEN 7
    ELSE IF MatchAt(s, i + 1, EntityNames[6])
            /\ ~(i + 4 <= Len(s) /\ s[i + 4] \in DigitChars)
         THEN 6
    ELSE FirstOf({n \in 1..5 : MatchAt(s, i + 1, EntityNames[n])})

\* its character
EntityChar(n) == IF n = 7 THEN "'" ELSE EntityChars[n]

\* the characters a reference stands between the '&' and the optional ';'
EntityNameLen(n) == IF n = 7 THEN 4 ELSE Len(EntityNames[n])

\* a name is followed by its ';' only when the run of name characters ends
\* with it; a numeric reference takes the ';' that follows it
EntitySemi(s, i, n) ==
    LET e == i + EntityNameLen(n) + 1
    IN  IF CharAt(s, e, ";") THEN 1 ELSE 0

RECURSIVE UnescapeFrom(_, _)
UnescapeFrom(s, i) ==
    LET k == FirstOf({j \in i..Len(s) : EntityAt(s, j) # 0})
    IN  IF k = 0 THEN From(s, i)
        ELSE LET n == EntityAt(s, k)
             IN  SubSeq(s, i, k - 1) \o <<EntityChar(n)>>
                     \o UnescapeFrom(s, k + 1 + EntityNameLen(n) + EntitySemi(s, k, n))

\* html.unescape(s)
HtmlUnescape(s) == UnescapeFrom(s, 1)

\* extract_complete_transcript, lines 161-171: join, unescape, normalize
NormalizeComplete(text_matches) ==
    LET joined == HtmlUnescape(JoinSp(text_matches))
        spaced == Replace(Replace(joined, <<NBSP>>, <<" ">>), <<"\n">>, <<" ">>)
    IN  Strip(CollapseWs(spaced))

(***************************************************************************)
(* Values.  An optional text is a record: None has some = FALSE.           *)
(***************************************************************************)
None == [some |-> FALSE, text |-> <<>>]

Some(t) == [some |-> TRUE, text |-> t]

\* Python's  not x  for an optional text
Falsy(x) == ~x.some \/ Len(x.text) = 0

\* the minimum-content threshold of every extraction operation
MinTranscriptLen == 50

\* the threshold _extract_caption_data puts on a downloaded caption file
MinCaptionFileLen == 100

(***************************************************************************)
(* JSON caption payloads.  json.loads is the library's; a payload carries  *)
(* the value it decodes to beside its text:                                *)
(*   [kind |-> "invalid"]                      json.JSONDecodeError        *)
(*   [kind |-> "object", hasEvents, events, hasBody, body]                 *)
(* an event is [hasSegs, segs, hasUtf8, utf8, hasDur, tStartMs], a segment *)
(* [hasUtf8, utf8], a body item [isDict, hasUtf8, utf8, hasContent,        *)
(* content, str].                                                          *)
(***************************************************************************)
RECURSIVE SegTexts(_, _)
SegTexts(segs, i) ==
    IF i > Len(segs) THEN <<>>
    ELSE IF segs[i].hasUtf8 THEN <<segs[i].utf8>> \o SegTexts(segs, i + 1)
    ELSE SegTexts(segs, i + 1)

\* text_parts of the events loop, server/caption_scraper.py lines 260-268
RECURSIVE EventTextsServer(_, _)
EventTextsServer(events, i) ==
    IF i > Len(events) THEN <<>>
    ELSE LET e == events[i]
             here == IF e.hasSegs THEN SegTexts(e.segs, 1)
                     ELSE IF e.hasUtf8 THEN <<e.utf8>>
                     ELSE <<>>
         IN  here \o EventTextsServer(events, i + 1)

\* text_parts of the events loop, attached caption_scraper.py lines 290-299
RECURSIVE EventTextsAttached(_, _)
EventTextsAttached(events, i) ==
    IF i > Len(events) THEN <<>>
    ELSE LET e == events[i]
             here == IF e.hasSegs THEN SegTexts(e.segs, 1)
                     ELSE IF e.hasDur /\ e.hasUtf8 THEN <<e.utf8>>
                     ELSE <<>>
         IN  here \o EventTextsAttached(events, i + 1)

\* text_parts of the body loop, server/caption_scraper.py lines 277-282
RECURSIVE BodyTextsServer(_, _)
BodyTextsServer(body, i) ==
    IF i > Len(body) THEN <<>>
    ELSE LET b == body[i]
             here == IF b.isDict /\ b.hasUtf8 THEN <<b.utf8>>
                     ELSE IF ~b.isDict THEN <<b.str>>
                     ELSE <<>>
         IN  here \o BodyTextsServer(body, i + 1)

\* text_parts of the body loop, attached caption_scraper.py lines 306-309
RECURSIVE BodyTextsAttached(_, _)
BodyTextsAttached(body, i) ==
    IF i > Len(body) THEN <<>>
    ELSE LET b == body[i]
             here == IF b.isDict /\ b.hasContent THEN <<b.content>> ELSE <<>>
         IN  here \o BodyTextsAttached(body, i + 1)

\* [self._clean_text(text) for text in text_parts if text], server
RECURSIVE CleanNonEmptyServer(_, _)
CleanNonEmptyServer(parts, i) ==
    IF i > Len(parts) THEN <<>>
    ELSE IF Len(parts[i]) > 0
    THEN <<CleanTextServer(parts[i])>> \o CleanNonEmptyServer(parts, i + 1)
    ELSE CleanNonEmptyServer(parts, i + 1)

\* [self._clean_text(text) for text in text_parts], attached
CleanAllAttached(parts) == [i \in 1..Len(parts) |-> CleanTextAttached(parts[i])]

\* "key"\s*:\s*"([^"]+)" at i: the index of the closing quote, 0 if no match
KeyStringClose(s, i, key) ==
    LET quoted == <<"\"">> \o key \o <<"\"">>
        colon  == SkipSpace(s, i + Len(quoted))
        open   == SkipSpace(s, colon + 1)
        close  == FirstChar(s, open + 1, "\"")
    IN  IF MatchAt(s, i, quoted) /\ CharAt(s, colon, ":") /\ CharAt(s, open, "\"")
           /\ close > open + 1
        THEN close ELSE 0

\* the index of the opening quote of the value of that match
KeyStringOpen(s, i, key) == SkipSpace(s, SkipSpace(s, i + Len(key) + 2) + 1)

RECURSIVE FindAllKeyFrom(_, _, _)
FindAllKeyFrom(s, i, key) ==
    LET k == FirstOf({j \in i..Len(s) : KeyStringClose(s, j, key) # 0})
    IN  IF k = 0 THEN <<>>
        ELSE <<SubSeq(s, KeyStringOpen(s, k, key) + 1, KeyStringClose(s, k, key) - 1)>>
                 \o FindAllKeyFrom(s, KeyStringClose(s, k, key) + 1, key)

\* re.findall(r'"key"\s*:\s*"([^"]+)"', s)
FindAllKey(s, key) == FindAllKeyFrom(s, 1, key)

\* CaptionScraper._parse_json_captions, server/caption_scraper.py
ParseJsonCaptionsServer(json_content, json) ==
    IF json.kind = "invalid" THEN None
    ELSE LET ev == IF json.hasEvents THEN EventTextsServer(json.events, 1) ELSE <<>>
             bd == IF json.hasBody THEN BodyTextsServer(json.body, 1) ELSE <<>>
         IN  IF Len(ev) > 0 THEN Some(JoinSp(CleanNonEmptyServer(ev, 1)))
             ELSE IF Len(bd) > 0 THEN Some(JoinSp(CleanNonEmptyServer(bd, 1)))
             ELSE None

\* the regex fallback of the attached _parse_json_captions, lines 316-328
JsonRegexFallback(json_content) ==
    JoinSp(CleanAllAttached(
        FindAllKey(json_content, <<"t","e","x","t">>)
            \o FindAllKey(json_content, <<"u","t","f","8">>)
            \o FindAllKey(json_content, <<"c","o","n","t","e","n","t">>)))

\* CaptionScraper._parse_json_captions, attached_assets/caption_scraper.py
ParseJsonCaptionsAttached(json_content, json) ==
    IF json.kind = "invalid" THEN Some(JsonRegexFallback(json_content))
    ELSE LET ev == IF json.hasEvents THEN EventTextsAttached(json.events, 1) ELSE <<>>
             bd == IF json.hasBody THEN BodyTextsAttached(json.body, 1) ELSE <<>>
         IN  IF Len(ev) > 0 THEN Some(JoinSp(CleanAllAttached(ev)))
             ELSE IF Len(bd) > 0 THEN Some(JoinSp(CleanAllAttached(bd)))
             ELSE Some(JsonRegexFallback(json_content))

(***************************************************************************)
(* CaptionScraper.  variant is "server" or "attached".  A response of      *)
(* session.get is [kind, content, json]: kind "ok" (status 200), "status"  *)
(* (another status) or "exc" (the request raised).                         *)
(***************************************************************************)
CleanText(variant, text) ==
    IF variant = "server" THEN CleanTextServer(text) ELSE CleanTextAttached(text)

ParseXmlCaptions(variant, content) ==
    IF variant = "server" THEN ParseXmlCaptionsServer(content)
    ELSE ParseXmlCaptionsAttached(content)

ParseJsonCaptions(variant, content, json) ==
    IF variant = "server" THEN ParseJsonCaptionsServer(content, json)
    ELSE ParseJsonCaptionsAttached(content, json)

\* CaptionScraper._download_caption_file: the parsed text of one response
DownloadCaptionFile(variant, resp) ==
    IF resp.kind # "ok" THEN None
    ELSE IF Contains(resp.content, <<"<","t","e","x","t">>)
    THEN Some(ParseXmlCaptions(variant, resp.content))
    ELSE IF Contains(resp.content, <<"\"","t","e","x","t","\"">>)
    THEN ParseJsonCaptions(variant, resp.content, resp.json)
    ELSE Some(CleanText(variant, resp.content))

\* the literals the code compares texts with
AuthRequired == <<"A","U","T","H","_","R","E","Q","U","I","R","E","D">>

LitIP == <<"I","P">>

LitBlocked == <<"b","l","o","c","k","e","d">>

LitCloudProvider ==
    <<"I","P"," ","b","e","l","o","n","g","i","n","g"," ","t","o"," ","a",
      " ","c","l","o","u","d"," ","p","r","o","v","i","d","e","r">>

LitEn == <<"e","n">>

LitLangEn == <<"l","a","n","g","=","e","n">>

LitTlangEn == <<"&","t","l","a","n","g","=","e","n">>

LitTranscript == <<"t","r","a","n","s","c","r","i","p","t">>

LitTimedtext == <<"t","i","m","e","d","t","e","x","t">>

LitCaption == <<"c","a","p","t","i","o","n">>


\* "IP" in str(e) or "blocked" in str(e).lower(), _try_direct_timedtext_api
ScraperSeesBlocking(err) == Contains(err, LitIP) \/ ContainsCI(err, LitBlocked)

\* CaptionScraper._try_direct_timedtext_api.  api is the outcome of
\* YouTubeTranscriptApi.get_transcript: [ok, segments, err]
TryDirectTimedtextApi(variant, api) ==
    IF api.ok
    THEN IF Len(api.segments) > 0
         THEN Some(CleanText(variant, JoinSp(api.segments)))
         ELSE None
    ELSE IF variant = "attached" /\ ScraperSeesBlocking(api.err)
         THEN Some(AuthRequired)
         ELSE None

\* the loop of _extract_caption_data over the tracks from index i on, with
\* english_track the index chosen so far (0: None); the result is the index
\* of the chosen track
RECURSIVE EnglishTrackLoop(_, _, _)
EnglishTrackLoop(tracks, i, english_track) ==
    IF i > Len(tracks) THEN english_track
    ELSE IF StartsWith(tracks[i].languageCode, LitEn)
    THEN IF tracks[i].kind # "asr" THEN i
         ELSE IF english_track = 0 THEN EnglishTrackLoop(tracks, i + 1, i)
         ELSE EnglishTrackLoop(tracks, i + 1, english_track)
    ELSE EnglishTrackLoop(tracks, i + 1, english_track)

\* the track _extract_caption_data downloads: its index, 0 if there is none
SelectEnglishTrack(tracks) == EnglishTrackLoop(tracks, 1, 0)

\* caption_text and len(caption_text.strip()) > 100
CaptionFileAccepted(caption_text) ==
    ~Falsy(caption_text) /\ TrimmedLen(caption_text.text) > MinCaptionFileLen

\* the tracks as a list of the "baseUrl":"..." strings of the page
BaseUrlEntries(tracks) == SelectSeq(tracks, LAMBDA t : t.hasBaseUrl)

\* re.findall(r'"baseUrl":"([^"]*transcript[^"]*)"', html), kept when
\* 'lang=en' in url or '&tlang=en' in url
TranscriptUrlEntries(tracks) ==
    SelectSeq(BaseUrlEntries(tracks),
              LAMBDA t : /\ Contains(t.baseUrl, LitTranscript)
                         /\ \/ Contains(t.baseUrl, LitLangEn)
                            \/ Contains(t.baseUrl, LitTlangEn))

\* re.findall(r'"baseUrl":"([^"]*timedtext[^"]*lang=en[^"]*)"', html)
TimedtextUrlEntries(tracks) ==
    SelectSeq(BaseUrlEntries(tracks),
              LAMBDA t : \E i \in 1..Len(t.baseUrl) :
                             /\ MatchAt(t.baseUrl, i, LitTimedtext)
                             /\ \E j \in (i + Len(LitTimedtext))..Len(t.baseUrl) :
                                    MatchAt(t.baseUrl, j, LitLangEn))

\* re.findall(r'"baseUrl":"([^"]*caption[^"]*)"', html)
CaptionUrlEntries(tracks) ==
    SelectSeq(BaseUrlEntries(tracks), LAMBDA t : Contains(t.baseUrl, LitCaption))

\* one fallback loop of the attached _extract_caption_data: download the
\* entries in order until a caption file is accepted
RECURSIVE DownloadFirstAccepted(_, _, _)
DownloadFirstAccepted(variant, entries, i) ==
    IF i > Len(entries) THEN [out |-> None, fetched |-> <<>>]
    ELSE LET caption_text == DownloadCaptionFile(variant, entries[i].resp)
             rest == DownloadFirstAccepted(variant, entries, i + 1)
         IN  IF CaptionFileAccepted(caption_text)
             THEN [out |-> caption_text, fetched |-> <<entries[i].name>>]
             ELSE [out |-> rest.out, fetched |-> <<entries[i].name>> \o rest.fetched]

\* the three fallback loops, lines 203-226 of the attached scraper
UrlFallbacks(tracks) ==
    LET f1 == DownloadFirstAccepted("attached", TranscriptUrlEntries(tracks), 1)
        f2 == DownloadFirstAccepted("attached", TimedtextUrlEntries(tracks), 1)
        f3 == DownloadFirstAccepted("attached", CaptionUrlEntries(tracks), 1)
    IN  IF f1.out.some THEN f1
        ELSE IF f2.out.some
        THEN [out |-> f2.out, fetched |-> f1.fetched \o f2.fetched]
        ELSE [out |-> f3.out, fetched |-> f1.fetched \o f2.fetched \o f3.fetched]

\* CaptionScraper._extract_caption_data.  page is the video page:
\* config "absent" (no ytInitialPlayerResponse assignment), "badjson" or "ok",
\* tracks the captionTracks of the player response.  fetched lists the tracks
\* whose baseUrl was requested, in order; selected names the track the loop
\* over captionTracks chose ("none": english_track is None).
ExtractCaptionData(variant, page) ==
    LET caption_tracks == IF page.config = "ok" THEN page.tracks ELSE <<>>
        english_track == SelectEnglishTrack(caption_tracks)
        download == english_track # 0 /\ caption_tracks[english_track].hasBaseUrl
        caption_text == IF download
                        THEN DownloadCaptionFile(variant, caption_tracks[english_track].resp)
                        ELSE None
        first == IF download THEN <<caption_tracks[english_track].name>> ELSE <<>>
        later == UrlFallbacks(page.tracks)
        selected == IF english_track = 0 THEN "none"
                    ELSE caption_tracks[english_track].name
    IN  IF download /\ CaptionFileAccepted(caption_text)
        THEN [out |-> caption_text, fetched |-> first, selected |-> selected]
        ELSE IF variant = "server"
        THEN [out |-> None, fetched |-> first, selected |-> selected]
        ELSE [out |-> later.out, fetched |-> first \o later.fetched,
              selected |-> selected]

\* CaptionScraper._try_transcript_page_scraping
TryTranscriptPageScraping(variant, page) ==
    IF page.kind # "ok" THEN [out |-> None, fetched |-> <<>>, selected |-> "none"]
    ELSE ExtractCaptionData(variant, page)

(***************************************************************************)
(* Results.  kind is "record" (a dict), "text" (a str), "none" (None) or   *)
(* "raise"; method is the record's extraction_method, "absent" when the    *)
(* dict has no such key.                                                   *)
(***************************************************************************)
VideoId == "dQw4w9WgXcQ"

Record(transcript, method, title, date, channel) ==
    [kind |-> "record", transcript |-> transcript, method |-> method,
     title |-> title, date |-> date, channel |-> channel, error |-> ""]

NoneResult ==
    [kind |-> "none", transcript |-> <<>>, method |-> "", title |-> "",
     date |-> "", channel |-> "", error |-> ""]

TextResult(text) ==
    [kind |-> "text", transcript |-> text, method |-> "", title |-> "",
     date |-> "", channel |-> "", error |-> ""]

Raise(error) ==
    [kind |-> "raise", transcript |-> <<>>, method |-> "", title |-> "",
     date |-> "", channel |-> "", error |-> error]

\* x or fallback, for the strings of the metadata ("" stands for None or '')
OrElse(x, fallback) == IF x = "" THEN fallback ELSE x

\* CaptionScraper._get_basic_metadata: (title, upload_date, channel) of the
\* page response meta = [kind, title, date, channel], "" where a probe finds
\* nothing
BasicMetadata(meta) ==
    IF meta.kind = "ok"
    THEN [title |-> meta.title, date |-> meta.date, channel |-> meta.channel]
    ELSE [title |-> "", date |-> "", channel |-> ""]

\* a chain that scrapes the page whatever strategy 1 gave
PageScrapeAlways(caption_text) == TRUE

\* if not caption_text, line 24: the page is scraped only then
PageScrapeNeeded(caption_text) == Falsy(caption_text)

\* a threshold ten characters lower
TooShortUnderForty(text) == TrimmedLen(text) < MinTranscriptLen - 10

\* len(text.strip()) < 50
TooShort(text) == TrimmedLen(text) < MinTranscriptLen

\* if not caption_text or len(caption_text.strip()) < 50, line 28
ScraperRejects(caption_text) == Falsy(caption_text) \/ TooShort(caption_text.text)

\* the requests of one page scrape, in order
ScrapeCalls(fetched) == <<"page_get">> \o [i \in 1..Len(fetched) |-> "caption_get"]

\* lines 19-26 of extract_captions_from_page: the two strategies.  api and
\* page are what get_transcript and the page request answer.  calls: the
\* collaborators invoked, in order; origin: the strategy whose output became
\* caption_text.
CaptionStrategies(variant, api, page) ==
    LET direct == TryDirectTimedtextApi(variant, api)
        scrape == PageScrapeNeeded(direct)
        scraped == TryTranscriptPageScraping(variant, page)
    IN  [caption_text |-> IF scrape THEN scraped.out ELSE direct,
         calls |-> <<"get_transcript">>
                       \o (IF scrape THEN ScrapeCalls(scraped.fetched) ELSE <<>>),
         fetched |-> IF scrape THEN scraped.fetched ELSE <<>>,
         selected |-> IF scrape THEN scraped.selected ELSE "none",
         origin |-> IF scrape THEN "page_scrape"
                    ELSE IF api.ok THEN "managed_api" ELSE "sentinel"]

\* CaptionScraper.extract_captions_from_page, from line 28 on: tried is what
\* the strategies gave, meta what the metadata request answers
ExtractCaptionsFromPage(tried, meta) ==
    LET md == BasicMetadata(meta)
    IN  IF ScraperRejects(tried.caption_text)
        THEN [res |-> NoneResult, calls |-> tried.calls, fetched |-> tried.fetched,
              selected |-> tried.selected, origin |-> tried.origin]
        ELSE [res |-> Record(tried.caption_text.text, "web_scraping",
                             OrElse(md.title, "Video dQw4w9WgXcQ"),
                             OrElse(md.date, "2024-01-01"),
                             OrElse(md.channel, "Unknown Channel")),
              calls |-> tried.calls \o <<"metadata_get">>,
              fetched |-> tried.fetched, selected |-> tried.selected,
              origin |-> tried.origin]

(***************************************************************************)
(* YouTubeHandler, attached_assets/youtube_handler.py                      *)
(***************************************************************************)
LitTooShort ==
    <<"T","r","a","n","s","c","r","i","p","t"," ","i","s"," ","t","o","o",
      " ","s","h","o","r","t"," ","o","r"," ","e","m","p","t","y">>

\* "IP belonging to a cloud provider" in error_msg or "blocked" in
\* error_msg.lower(), extract_transcript line 135
HandlerSeesBlocking(error_msg) ==
    Contains(error_msg, LitCloudProvider) \/ ContainsCI(error_msg, LitBlocked)

\* YouTubeHandler._get_video_metadata: the dict of the page response meta
VideoMetadata(meta) ==
    IF meta.kind = "ok"
    THEN [title |-> OrElse(meta.title, "Video dQw4w9WgXcQ"),
          date |-> OrElse(meta.date, "today"),
          channel |-> OrElse(meta.channel, "Unknown Channel")]
    ELSE [title |-> "Coffee with Scott Adams - Episode dQw4w9WgXcQ",
          date |-> "today", channel |-> "Scott Adams"]

\* the except branch of extract_transcript, lines 130-143: error_msg is the
\* text of the exception, scraper what extract_captions_from_page gives
TranscriptFailure(error_msg, scraper) ==
    IF HandlerSeesBlocking(error_msg)
    THEN scraper
    ELSE [res |-> Raise("Caption extraction failed"), calls |-> <<>>,
          fetched |-> <<>>, selected |-> "none", origin |-> "none"]

\* YouTubeHandler.extract_transcript.  api and meta answer the handler's own
\* requests; scraper is what caption_scraper.extract_captions_from_page does
\* when it is called.
ExtractTranscript(api, meta, scraper) ==
    LET full_transcript == CombineTranscriptSegments(api.segments)
        metadata == VideoMetadata(meta)
        failure == TranscriptFailure(IF api.ok THEN LitTooShort ELSE api.err, scraper)
    IN  IF api.ok /\ ~(Len(full_transcript) = 0 \/ TooShort(full_transcript))
        THEN [res |-> Record(full_transcript, "absent", metadata.title,
                             metadata.date, metadata.channel),
              calls |-> <<"get_transcript", "metadata_get">>,
              fetched |-> <<>>, selected |-> "none", origin |-> "managed_api"]
        ELSE [failure EXCEPT !.calls = <<"get_transcript">> \o @]

\* YouTubeHandler.extract_transcript of server/youtube_handler.py
RECURSIVE AppendSegments(_, _)
AppendSegments(segments, i) ==
    IF i > Len(segments) THEN <<>>
    ELSE segments[i] \o <<" ">> \o AppendSegments(segments, i + 1)

ExtractTranscriptPlain(api) ==
    IF api.ok
    THEN [res |-> TextResult(Strip(AppendSegments(api.segments, 1))),
          calls |-> <<"get_transcript">>, fetched |-> <<>>, selected |-> "none",
          origin |-> "managed_api"]
    ELSE [res |-> Raise("Failed to extract transcript"),
          calls |-> <<"get_transcript">>, fetched |-> <<>>, selected |-> "none",
          origin |-> "none"]

(***************************************************************************)
(* extract_complete_transcript, server/complete_caption_scraper.py         *)
(***************************************************************************)
MaxRetries == 3

\* a retry loop without its bound
PageAttemptsUnbounded(failures) == failures + 1

\* the session.get calls of the retry loop, lines 31-43, when the first
\* failures attempts raise a RequestException
PageAttempts(failures) == IF failures < MaxRetries THEN failures + 1 ELSE MaxRetries

\* the loop over caption_tracks, lines 102-118, from index i on
RECURSIVE CompleteTrackLoop(_, _, _)
CompleteTrackLoop(tracks, i, english_track) ==
    IF i > Len(tracks) THEN english_track
    ELSE IF /\ StartsWith(tracks[i].languageCode, LitEn)
            /\ (english_track = 0 \/ tracks[i].kind # "asr")
    THEN CompleteTrackLoop(tracks, i + 1, i)
    ELSE CompleteTrackLoop(tracks, i + 1, english_track)

\* the track extract_complete_transcript downloads, lines 102-123: its index,
\* 0 if there is none
SelectCompleteTrack(tracks) ==
    LET english_track == CompleteTrackLoop(tracks, 1, 0)
    IN  IF english_track = 0 /\ Len(tracks) > 0 THEN 1 ELSE english_track

\* <transcript>(.+?)</transcript> and <timedtext>(.+?)</timedtext>: the
\* text elements inside the first match of tag
InnerTexts(content, tag) ==
    LET open == <<"<">> \o tag \o <<">">>
        close == <<"<","/">> \o tag \o <<">">>
        a == FirstOf({j \in 1..Len(content) : MatchAt(content, j, open)})
        b == FirstOf({j \in (a + Len(open) + 1)..Len(content) : MatchAt(content, j, close)})
    IN  IF a = 0 \/ b = 0 THEN <<>>
        ELSE FindAllText(SubSeq(content, a + Len(open), b - 1))

\* extract_captions_from_alternative_format: [raised, texts].  'segs' in
\* event.get('tStartMs', {}) raises TypeError when tStartMs is a number.
AlternativeFormat(resp) ==
    LET inner == InnerTexts(resp.content, LitTranscript)
        timed == InnerTexts(resp.content, LitTimedtext)
        xml == IF Len(inner) > 0 THEN inner ELSE timed
    IN  IF /\ StartsWith(Strip(resp.content), <<"{">>)
           /\ resp.json.kind = "object"
           /\ resp.json.hasEvents
        THEN [raised |-> \E i \in 1..Len(resp.json.events) : resp.json.events[i].hasStart,
              texts |-> <<>>]
        ELSE [raised |-> FALSE, texts |-> xml]

\* the pattern "captions":({.+?}),"videoDetails" of line 69 matches: the
\* page lists caption tracks
AltPatternMatches(page) == Len(page.tracks) > 0

\* a scraper that takes the match of the alternative pattern for the player
\* configuration
PlayerConfigFromAlternative(page) ==
    IF page.config = "ok" \/ (page.config = "absent" /\ AltPatternMatches(page))
    THEN "found"
    ELSE "none"

\* lines 62-86: the player configuration is "found"; or the call returns
\* None ("none": neither pattern matches, or json.loads rejects the match);
\* or only the alternative pattern matches, and match.group(1) at line 80
\* raises AttributeError on None ("raise")
PlayerConfig(page) ==
    IF page.config = "ok" THEN "found"
    ELSE IF page.config = "absent" /\ AltPatternMatches(page) THEN "raise"
    ELSE "none"

\* a call without the handler of lines 182-187
ExceptPropagates(res) == res

\* except Exception: return None, lines 182-187
ExceptReturnsNone(res) == IF res.kind = "raise" THEN NoneResult ELSE res

\* extract_complete_transcript from the caption response on, lines 145-180;
\* it raises when extract_captions_from_alternative_format does
CompleteFromCaptions(resp) ==
    LET found == FindAllText(resp.content)
        other == AlternativeFormat(resp)
        text_matches == IF Len(found) > 0 THEN found ELSE other.texts
        complete_transcript == NormalizeComplete(text_matches)
    IN  IF Len(found) = 0 /\ other.raised
        THEN Raise("argument of type 'int' is not iterable")
        ELSE IF Len(found) = 0 /\ Len(other.texts) = 0 THEN NoneResult
        ELSE IF Len(complete_transcript) < MinTranscriptLen THEN NoneResult
        ELSE TextResult(complete_transcript)

\* extract_complete_transcript(video_id): failures is the number of page
\* requests that raise before one answers, page the answer.  The third
\* RequestException is raised again at line 43.
ExtractCompleteTranscript(failures, page) ==
    LET tracks == page.tracks
        english_track == SelectCompleteTrack(tracks)
        paged == [i \in 1..PageAttempts(failures) |-> "page_get"]
        stop == [res |-> NoneResult, calls |-> paged, fetched |-> <<>>,
                 selected |-> "none", origin |-> "none"]
    IN  IF failures >= MaxRetries
        THEN [stop EXCEPT !.res = ExceptReturnsNone(Raise("RequestException"))]
        ELSE IF page.kind # "ok" THEN stop
        ELSE IF PlayerConfig(page) = "raise"
        THEN [stop EXCEPT !.res = ExceptReturnsNone(
                                      Raise("'NoneType' object has no attribute 'group'"))]
        ELSE IF PlayerConfig(page) = "none" \/ Len(tracks) = 0 THEN stop
        ELSE IF ~tracks[english_track].hasBaseUrl
        THEN [stop EXCEPT !.selected = tracks[english_track].name]
        ELSE [res |-> IF tracks[english_track].resp.kind = "ok"
                      THEN ExceptReturnsNone(
                               CompleteFromCaptions(tracks[english_track].resp))
                      ELSE NoneResult,
              calls |-> paged \o <<"caption_get">>,
              fetched |-> <<tracks[english_track].name>>,
              selected |-> tracks[english_track].name,
              origin |-> "page_scrape"]

(***************************************************************************)
(* YouTubeHandler with the Data API and with Whisper                       *)
(***************************************************************************)
\* YouTubeHandler._get_video_metadata_with_api: video is what
\* videos().list().execute() answers, [kind, hasItems, title, date, channel]
VideoMetadataWithApi(youtube_api, video) ==
    IF youtube_api /\ video.kind = "ok" /\ video.hasItems
    THEN [title |-> video.title, date |-> OrElse(video.date, "today"),
          channel |-> video.channel]
    ELSE [title |-> "Coffee with Scott Adams - Episode dQw4w9WgXcQ",
          date |-> "today", channel |-> "Scott Adams"]

MetadataCalls(youtube_api) == IF youtube_api THEN <<"videos_list">> ELSE <<>>

\* lang in ['en', 'en-US', 'en-GB']
IsListedEnglish(lang) ==
    lang \in {<<"e","n">>, <<"e","n","-","U","S">>, <<"e","n","-","G","B">>}

\* the loop over captions_response['items'], lines 503-513, from index i on
RECURSIVE ApiCaptionLoop(_, _, _)
ApiCaptionLoop(items, i, english_caption) ==
    IF i > Len(items) THEN english_caption
    ELSE IF IsListedEnglish(items[i].language)
    THEN IF items[i].trackKind = "standard" THEN i
         ELSE IF english_caption = 0 THEN ApiCaptionLoop(items, i + 1, i)
         ELSE ApiCaptionLoop(items, i + 1, english_caption)
    ELSE ApiCaptionLoop(items, i + 1, english_caption)

\* the caption extract_transcript_with_api downloads: its index, 0 if none
SelectApiCaption(items) == ApiCaptionLoop(items, 1, 0)

\* YouTubeHandler.extract_transcript_with_api: video and list are what
\* videos().list() and captions().list() answer; a caption carries what its
\* download answers
ExtractTranscriptWithApi(youtube_api, video, list) ==
    LET metadata == VideoMetadataWithApi(youtube_api, video)
        english_caption == SelectApiCaption(list.items)
        chosen == list.items[english_caption]
        transcript_text == ParseSrtContent(chosen.resp.content)
        failed(calls, selected) ==
            [res |-> Raise("API caption extraction failed"), calls |-> calls,
             fetched |-> <<>>, selected |-> selected, origin |-> "none"]
    IN  IF ~youtube_api THEN failed(<<>>, "none")
        ELSE IF list.kind # "ok" \/ Len(list.items) = 0 \/ english_caption = 0
        THEN failed(<<"videos_list", "captions_list">>, "none")
        ELSE IF chosen.resp.kind # "ok"
                \/ Len(transcript_text) = 0 \/ TooShort(transcript_text)
        THEN [failed(<<"videos_list", "captions_list", "captions_download">>, chosen.name)
                  EXCEPT !.fetched = <<chosen.name>>]
        ELSE [res |-> Record(transcript_text, "api_captions", metadata.title,
                             metadata.date, metadata.channel),
              calls |-> <<"videos_list", "captions_list", "captions_download">>,
              fetched |-> <<chosen.name>>, selected |-> chosen.name,
              origin |-> "data_api"]

LitNotABot ==
    <<"S","i","g","n"," ","i","n"," ","t","o"," ","c","o","n","f","i","r",
      "m"," ","y","o","u","'","r","e"," ","n","o","t"," ","a"," ","b","o",
      "t">>

LitForbidden == <<"f","o","r","b","i","d","d","e","n">>

LitNoAudioFile ==
    <<"F","a","i","l","e","d"," ","t","o"," ","d","o","w","n","l","o","a",
      "d"," ","a","u","d","i","o"," ","f","i","l","e">>

LitGeneratedTooShort ==
    <<"G","e","n","e","r","a","t","e","d"," ","t","r","a","n","s","c","r",
      "i","p","t"," ","i","s"," ","t","o","o"," ","s","h","o","r","t"," ",
      "o","r"," ","e","m","p","t","y">>

\* model_map.get(quality_level, "tiny")
ModelSize(quality_level) ==
    CASE quality_level = "Fast" -> "tiny"
      [] quality_level = "Balanced" -> "base"
      [] quality_level = "Best Quality" -> "small"
      [] OTHER -> "tiny"

\* an except branch that does not look for 'forbidden'
AudioFailureWithoutForbidden(error_msg) ==
    IF Contains(error_msg, LitNotABot)
    THEN Raise("YouTube is blocking audio downloads from this environment")
    ELSE IF ContainsCI(error_msg, LitBlocked)
    THEN Raise("YouTube has blocked access to this video's audio")
    ELSE Raise("Audio extraction failed")

\* the except branch of extract_transcript_from_audio, lines 284-294
AudioFailure(error_msg) ==
    IF Contains(error_msg, LitNotABot)
    THEN Raise("YouTube is blocking audio downloads from this environment")
    ELSE IF ContainsCI(error_msg, LitBlocked) \/ ContainsCI(error_msg, LitForbidden)
    THEN Raise("YouTube has blocked access to this video's audio")
    ELSE Raise("Audio extraction failed")

\* the steps of extract_transcript_from_audio, in order
AudioSteps == <<"extract_info", "download", "listdir", "from_file", "load_model",
               "transcribe">>

StepIndex(step) == CHOOSE i \in 1..Len(AudioSteps) : AudioSteps[i] = step

\* whisper.load_model is called, line 246
LoadsModel(whisper_model, quality_level) ==
    whisper_model = "none" \/ whisper_model # ModelSize(quality_level)

\* the collaborators called when the run gets as far as step last
AudioCalls(youtube_api, whisper_model, quality_level, last) ==
    MetadataCalls(youtube_api)
        \o SelectSeq(SubSeq(AudioSteps, 1, StepIndex(last)),
                     LAMBDA step : /\ step # "listdir"
                                   /\ (step = "load_model"
                                          => LoadsModel(whisper_model, quality_level)))

\* YouTubeHandler.extract_transcript_from_audio.  audio is what the
\* collaborators do: [fails, err, text, title, uploader], fails the step that
\* raises err ("listdir": no file was downloaded; "none": no step fails) and
\* text what Whisper transcribes.  model is the model loaded afterwards.
\* api_metadata['date'] is never empty and never of the form %Y%m%d, so
\* strptime raises and the date of the record is today's.
ExtractTranscriptFromAudio(youtube_api, whisper_model, video, audio, quality_level) ==
    LET api_metadata == VideoMetadataWithApi(youtube_api, video)
        title == OrElse(api_metadata.title, OrElse(audio.title, "Video dQw4w9WgXcQ"))
        channel == OrElse(api_metadata.channel, audio.uploader)
        model_size == ModelSize(quality_level)
        reached(step) == audio.fails = "none" \/ StepIndex(audio.fails) >= StepIndex(step)
        loaded == IF /\ reached("load_model")
                     /\ audio.fails # "load_model"
                     /\ LoadsModel(whisper_model, quality_level)
                  THEN model_size ELSE whisper_model
        last == IF audio.fails = "none" THEN "transcribe" ELSE audio.fails
        calls == AudioCalls(youtube_api, whisper_model, quality_level, last)
        failed(error_msg) ==
            [res |-> AudioFailure(error_msg), calls |-> calls, fetched |-> <<>>,
             selected |-> "none", origin |-> "none", model |-> loaded]
    IN  IF audio.fails = "listdir" THEN failed(LitNoAudioFile)
        ELSE IF audio.fails # "none" THEN failed(audio.err)
        ELSE IF Len(audio.text) = 0 \/ TooShort(audio.text) THEN failed(LitGeneratedTooShort)
        ELSE [res |-> Record(CleanWhisperTranscript(audio.text), "audio", title,
                             "today", channel),
              calls |-> calls, fetched |-> <<>>, selected |-> "none",
              origin |-> "whisper", model |-> loaded]

(***************************************************************************)
(* The environment: what the collaborators may answer.  Texts are spelled  *)
(* out so that the parsers and normalizers run on them.                    *)
(***************************************************************************)
SegWelcome ==
    <<"H","e","l","l","o"," ","a","n","d"," ","w","e","l","c","o","m","e",
      " ","t","o"," ","t","h","e"," ","s","h","o","w",".">>

SegMusic == <<"[","M","u","s","i","c","]">>

SegToday ==
    <<"T","o","d","a","y"," ","w","e"," ","t","a","l","k"," ","a","b","o",
      "u","t"," ","u","m"," ","p","e","r","s","u","a","s","i","o","n">>

SegCoffee ==
    <<"a","n","d"," ","c","o","f","f","e","e"," ","(","l","a","u","g","h",
      "s",")"," ","w","i","t","h"," ","y","o","u",".">>

SegGiveUp ==
    <<"N","e","v","e","r"," ","g","o","n","n","a"," ","g","i","v","e"," ",
      "y","o","u"," ","u","p">>

SegLetDown ==
    <<"n","e","v","e","r"," ","g","o","n","n","a"," ","l","e","t"," ","y",
      "o","u"," ","d","o","w","n">>

SegHello == <<"H","e","l","l","o"," ","t","h","e","r","e">>

ErrCloudProvider ==
    <<"Y","o","u"," ","a","r","e"," ","d","o","i","n","g"," ","r","e","q",
      "u","e","s","t","s"," ","f","r","o","m"," ","a","n"," ","I","P"," ",
      "b","e","l","o","n","g","i","n","g"," ","t","o"," ","a"," ","c","l",
      "o","u","d"," ","p","r","o","v","i","d","e","r">>

ErrBlocked ==
    <<"R","e","q","u","e","s","t"," ","B","l","o","c","k","e","d"," ","b",
      "y"," ","Y","o","u","T","u","b","e">>

ErrDisabled ==
    <<"S","u","b","t","i","t","l","e","s"," ","a","r","e"," ","d","i","s",
      "a","b","l","e","d"," ","f","o","r"," ","t","h","i","s"," ","v","i",
      "d","e","o">>

ErrNoTranscript ==
    <<"N","o"," ","t","r","a","n","s","c","r","i","p","t","s"," ","w","e",
      "r","e"," ","f","o","u","n","d"," ","f","o","r"," ","a","n","y"," ",
      "o","f"," ","t","h","e"," ","r","e","q","u","e","s","t","e","d"," ",
      "l","a","n","g","u","a","g","e"," ","c","o","d","e","s">>

XmlManual ==
    <<"<","?","x","m","l"," ","v","e","r","s","i","o","n","=","\"","1",".",
      "0","\"","?",">","<","t","r","a","n","s","c","r","i","p","t",">","<",
      "t","e","x","t"," ","s","t","a","r","t","=","\"","0","\""," ","d","u",
      "r","=","\"","2","\"",">","M","a","n","u","a","l"," ","c","a","p","t",
      "i","o","n","s",":"," ","h","e","l","l","o"," ","a","n","d"," ","w",
      "e","l","c","o","m","e","<","/","t","e","x","t",">","<","t","e","x",
      "t"," ","s","t","a","r","t","=","\"","2","\""," ","d","u","r","=",
      "\"","3","\"",">","t","o","d","a","y"," ","w","e"," ","t","a","l","k",
      " ","a","b","o","u","t"," ","c","o","f","f","e","e"," ","&","a","m",
      "p",";"," ","p","e","r","s","u","a","s","i","o","n","<","/","t","e",
      "x","t",">","<","t","e","x","t"," ","s","t","a","r","t","=","\"","5",
      "\""," ","d","u","r","=","\"","3","\"",">","a","n","d"," ","w","h",
      "y"," ","i","t"," ","m","a","t","t","e","r","s"," ","s","o"," ","m",
      "u","c","h"," ","t","o"," ","e","v","e","r","y","o","n","e","<","/",
      "t","e","x","t",">","<","/","t","r","a","n","s","c","r","i","p","t",
      ">">>

XmlAuto ==
    <<"<","t","r","a","n","s","c","r","i","p","t",">","<","t","e","x","t",
      " ","s","t","a","r","t","=","\"","0","\""," ","d","u","r","=","\"",
      "2","\"",">","a","u","t","o"," ","c","a","p","t","i","o","n","s"," ",
      "h","e","l","l","o"," ","a","n","d"," ","w","e","l","c","o","m","e",
      "<","/","t","e","x","t",">","<","t","e","x","t"," ","s","t","a","r",
      "t","=","\"","2","\""," ","d","u","r","=","\"","3","\"",">","t","o",
      "d","a","y"," ","w","e"," ","t","a","l","k"," ","a","b","o","u","t",
      " ","c","o","f","f","e","e"," ","a","n","d"," ","p","e","r","s","u",
      "a","s","i","o","n","<","/","t","e","x","t",">","<","t","e","x","t",
      " ","s","t","a","r","t","=","\"","5","\""," ","d","u","r","=","\"",
      "3","\"",">","a","n","d"," ","w","h","y"," ","i","t"," ","m","a","t",
      "t","e","r","s"," ","s","o"," ","m","u","c","h"," ","t","o"," ","e",
      "v","e","r","y","o","n","e"," ","h","e","r","e","<","/","t","e","x",
      "t",">","<","/","t","r","a","n","s","c","r","i","p","t",">">>

XmlFrench ==
    <<"<","t","r","a","n","s","c","r","i","p","t",">","<","t","e","x","t",
      " ","s","t","a","r","t","=","\"","0","\""," ","d","u","r","=","\"",
      "2","\"",">","B","o","n","j","o","u","r"," ","e","t"," ","b","i","e",
      "n","v","e","n","u","e"," ","d","a","n","s"," ","n","o","t","r","e",
      " ","e","m","i","s","s","i","o","n","<","/","t","e","x","t",">","<",
      "t","e","x","t"," ","s","t","a","r","t","=","\"","2","\""," ","d","u",
      "r","=","\"","3","\"",">","n","o","u","s"," ","p","a","r","l","o","n",
      "s"," ","d","u"," ","c","a","f","e"," ","e","t"," ","d","e"," ","l",
      "a"," ","p","e","r","s","u","a","s","i","o","n","<","/","t","e","x",
      "t",">","<","t","e","x","t"," ","s","t","a","r","t","=","\"","5","\"",
      " ","d","u","r","=","\"","3","\"",">","e","t"," ","d","e"," ","s","o",
      "n"," ","i","m","p","o","r","t","a","n","c","e"," ","p","o","u","r",
      " ","t","o","u","t"," ","l","e"," ","m","o","n","d","e","<","/","t",
      "e","x","t",">","<","/","t","r","a","n","s","c","r","i","p","t",">">>

XmlMid ==
    <<"<","t","r","a","n","s","c","r","i","p","t",">","<","t","e","x","t",
      " ","s","t","a","r","t","=","\"","0","\""," ","d","u","r","=","\"",
      "2","\"",">","A"," ","s","h","o","r","t"," ","c","l","i","p"," ","a",
      "b","o","u","t"," ","c","o","f","f","e","e","<","/","t","e","x","t",
      ">","<","t","e","x","t"," ","s","t","a","r","t","=","\"","2","\""," ",
      "d","u","r","=","\"","3","\"",">","a","n","d"," ","a","b","o","u","t",
      " ","p","e","r","s","u","a","s","i","o","n"," ","i","n"," ","t","h",
      "e"," ","m","o","r","n","i","n","g","<","/","t","e","x","t",">","<",
      "/","t","r","a","n","s","c","r","i","p","t",">">>

XmlTiny ==
    <<"<","t","r","a","n","s","c","r","i","p","t",">","<","t","e","x","t",
      " ","s","t","a","r","t","=","\"","0","\""," ","d","u","r","=","\"",
      "1","\"",">","h","i","<","/","t","e","x","t",">","<","/","t","r","a",
      "n","s","c","r","i","p","t",">">>

SrtPayload ==
    <<"1","\n","0","0",":","0","0",":","0","1",",","0","0","0"," ","-","-",
      ">"," ","0","0",":","0","0",":","0","4",",","0","0","0","\n","N","e",
      "v","e","r"," ","g","o","n","n","a"," ","g","i","v","e"," ","y","o",
      "u"," ","u","p",","," ","n","e","v","e","r"," ","g","o","n","n","a",
      " ","l","e","t"," ","y","o","u"," ","d","o","w","n","\n","n","e","v",
      "e","r"," ","g","o","n","n","a"," ","r","u","n"," ","a","r","o","u",
      "n","d"," ","a","n","d"," ","d","e","s","e","r","t"," ","y","o","u",
      "\n">>

SrtLineOne ==
    <<"N","e","v","e","r"," ","g","o","n","n","a"," ","g","i","v","e"," ",
      "y","o","u"," ","u","p",","," ","n","e","v","e","r"," ","g","o","n",
      "n","a"," ","l","e","t"," ","y","o","u"," ","d","o","w","n">>

SrtLineTwo ==
    <<"n","e","v","e","r"," ","g","o","n","n","a"," ","r","u","n"," ","a",
      "r","o","u","n","d"," ","a","n","d"," ","d","e","s","e","r","t"," ",
      "y","o","u">>

Json3Payload ==
    <<"{","\"","e","v","e","n","t","s","\"",":","[","{","\"","t","S","t",
      "a","r","t","M","s","\"",":","0",",","\"","d","D","u","r","a","t","i",
      "o","n","M","s","\"",":","2","0","0","0",",","\"","s","e","g","s",
      "\"",":","[","{","\"","u","t","f","8","\"",":","\"","H","e","l","l",
      "o"," ","a","n","d"," ","w","e","l","c","o","m","e"," ","t","o"," ",
      "t","h","e"," ","J","S","O","N"," ","s","h","o","w","\"","}","]","}",
      ",","{","\"","t","S","t","a","r","t","M","s","\"",":","2","0","0","0",
      ",","\"","d","D","u","r","a","t","i","o","n","M","s","\"",":","3","0",
      "0","0",",","\"","s","e","g","s","\"",":","[","{","\"","u","t","f",
      "8","\"",":","\"","t","o","d","a","y"," ","w","e"," ","t","a","l","k",
      " ","a","b","o","u","t"," ","c","o","f","f","e","e","\"","}",",","{",
      "\"","u","t","f","8","\"",":","\"","a","n","d"," ","p","e","r","s",
      "u","a","s","i","o","n"," ","i","n"," ","t","h","e"," ","m","o","r",
      "n","i","n","g","\"","}","]","}","]","}">>

JsonTextPayload ==
    <<"{","\"","f","o","r","m","a","t","\"",":","\"","t","e","x","t","\"",
      ",","\"","e","v","e","n","t","s","\"",":","[","{","\"","t","S","t",
      "a","r","t","M","s","\"",":","0",",","\"","d","D","u","r","a","t","i",
      "o","n","M","s","\"",":","2","0","0","0",",","\"","u","t","f","8",
      "\"",":","\"","H","e","l","l","o"," ","a","n","d"," ","w","e","l","c",
      "o","m","e"," ","t","o"," ","t","h","e"," ","J","S","O","N"," ","s",
      "h","o","w","\"","}",",","{","\"","t","S","t","a","r","t","M","s",
      "\"",":","2","0","0","0",",","\"","s","e","g","s","\"",":","[","{",
      "\"","u","t","f","8","\"",":","\"","t","o","d","a","y"," ","w","e",
      " ","t","a","l","k"," ","a","b","o","u","t"," ","c","o","f","f","e",
      "e"," ","a","n","d"," ","p","e","r","s","u","a","s","i","o","n","\"",
      "}",",","{","\"","u","t","f","8","\"",":","\"","a","n","d"," ","w",
      "h","y"," ","i","t"," ","m","a","t","t","e","r","s"," ","s","o"," ",
      "m","u","c","h"," ","t","o"," ","e","v","e","r","y","o","n","e","\"",
      "}","]","}","]","}">>

JsonBrokenPayload ==
    <<"{","\"","t","e","x","t","\"",":"," ","\"","H","e","l","l","o"," ",
      "a","n","d"," ","w","e","l","c","o","m","e","\"",","," ","\"","u","t",
      "f","8","\"",":"," ","\"","t","o"," ","t","h","e"," ","b","r","o","k",
      "e","n"," ","s","h","o","w","\"">>

UrlEn ==
    <<"h","t","t","p","s",":","/","/","w","w","w",".","y","o","u","t","u",
      "b","e",".","c","o","m","/","a","p","i","/","t","i","m","e","d","t",
      "e","x","t","?","v","=","d","Q","w","4","w","9","W","g","X","c","Q",
      "&","l","a","n","g","=","e","n">>

UrlEnAsr ==
    <<"h","t","t","p","s",":","/","/","w","w","w",".","y","o","u","t","u",
      "b","e",".","c","o","m","/","a","p","i","/","t","i","m","e","d","t",
      "e","x","t","?","v","=","d","Q","w","4","w","9","W","g","X","c","Q",
      "&","k","i","n","d","=","a","s","r","&","l","a","n","g","=","e","n">>

UrlFr ==
    <<"h","t","t","p","s",":","/","/","w","w","w",".","y","o","u","t","u",
      "b","e",".","c","o","m","/","a","p","i","/","t","i","m","e","d","t",
      "e","x","t","?","v","=","d","Q","w","4","w","9","W","g","X","c","Q",
      "&","l","a","n","g","=","f","r">>

UrlFrTranslated ==
    <<"h","t","t","p","s",":","/","/","w","w","w",".","y","o","u","t","u",
      "b","e",".","c","o","m","/","a","p","i","/","t","r","a","n","s","c",
      "r","i","p","t","?","v","=","d","Q","w","4","w","9","W","g","X","c",
      "Q","&","l","a","n","g","=","f","r","&","t","l","a","n","g","=","e",
      "n">>

UrlCaption ==
    <<"h","t","t","p","s",":","/","/","w","w","w",".","y","o","u","t","u",
      "b","e",".","c","o","m","/","a","p","i","/","c","a","p","t","i","o",
      "n","?","v","=","d","Q","w","4","w","9","W","g","X","c","Q","&","h",
      "l","=","d","e">>

SrtAuto ==
    <<"1","\n","0","0",":","0","0",":","0","0",",","5","0","0"," ","-","-",
      ">"," ","0","0",":","0","0",":","0","3",",","0","0","0","\n","[","M",
      "u","s","i","c","]","\n","\n","2","\n","0","0",":","0","0",":","0",
      "3",",","0","0","0"," ","-","-",">"," ","0","0",":","0","0",":","0",
      "6",",","0","0","0","\n","<","i",">","W","e","l","c","o","m","e"," ",
      "b","a","c","k","<","/","i",">"," ","t","o"," ","t","h","e"," ","s",
      "h","o","w"," ","e","v","e","r","y","o","n","e","\n","\n","3","\n",
      "0","0",":","0","0",":","0","6",",","0","0","0"," ","-","-",">"," ",
      "0","0",":","0","0",":","0","9",",","0","0","0","\n","t","o","d","a",
      "y"," ","w","e"," ","s","i","m","u","l","t","a","n","e","o","u","s",
      "l","y"," ","s","i","p"," ","o","u","r"," ","c","o","f","f","e","e",
      ".","E","n","j","o","y","\n">>

SrtShort ==
    <<"1","\n","0","0",":","0","0",":","0","1",",","0","0","0"," ","-","-",
      ">"," ","0","0",":","0","0",":","0","2",",","0","0","0","\n","H","e",
      "l","l","o"," ","[","l","a","u","g","h","s","]"," ","t","h","e","r",
      "e","\n">>

ErrNotABot ==
    <<"E","R","R","O","R",":"," ","[","y","o","u","t","u","b","e","]"," ",
      "d","Q","w","4","w","9","W","g","X","c","Q",":"," ","S","i","g","n",
      " ","i","n"," ","t","o"," ","c","o","n","f","i","r","m"," ","y","o",
      "u","'","r","e"," ","n","o","t"," ","a"," ","b","o","t">>

ErrForbidden ==
    <<"H","T","T","P"," ","E","r","r","o","r"," ","4","0","3",":"," ","F",
      "o","r","b","i","d","d","e","n">>

ErrFfmpeg ==
    <<"f","f","p","r","o","b","e"," ","a","n","d"," ","f","f","m","p","e",
      "g"," ","n","o","t"," ","f","o","u","n","d">>

WhisperTalk ==
    <<" ","G","o","o","d"," ","m","o","r","n","i","n","g"," ","e","v","e",
      "r","y","b","o","d","y",","," ","a","n","d"," ","w","e","l","c","o",
      "m","e"," ","t","o",","," ","u","m",","," ","t","h","e"," ","h","i",
      "g","h","l","i","g","h","t"," ","o","f"," ","c","i","v","i","l","i",
      "z","a","t","i","o","n","."," ","I","t"," ","i","s"," ","c","a","l",
      "l","e","d"," ","c","o","f","f","e","e",".">>

WhisperMusic ==
    <<" ","[","M","U","S","I","C","]"," ","[","M","U","S","I","C","]"," ",
      "[","M","U","S","I","C","]"," ","[","M","U","S","I","C","]"," ","[",
      "M","U","S","I","C","]"," ","[","M","U","S","I","C","]"," ","[","M",
      "U","S","I","C","]"," ","[","M","U","S","I","C","]">>

WhisperBarely ==
    <<" ","U","h",","," ","u","m",","," ","[","A","P","P","L","A","U","S",
      "E","]"," ","t","h","a","n","k"," ","y","o","u",","," ","t","h","a",
      "n","k"," ","y","o","u"," ","a","l","l","."," ","[","L","A","U","G",
      "H","T","E","R","]"," ","U","m",","," ","e","r",","," ","h","e","l",
      "l","o",".">>

WhisperShort == <<" ","T","h","a","n","k"," ","y","o","u",".">>

XmlEmptyText ==
    <<"<","t","r","a","n","s","c","r","i","p","t",">","<","t","e","x","t",
      " ","s","t","a","r","t","=","\"","0","\""," ","d","u","r","=","\"",
      "1","\"",">","<","/","t","e","x","t",">","<","t","e","x","t"," ","s",
      "t","a","r","t","=","\"","1","\""," ","d","u","r","=","\"","2","\"",
      ">","<","b",">","b","o","l","d","<","/","b",">","<","/","t","e","x",
      "t",">","<","/","t","r","a","n","s","c","r","i","p","t",">">>

LangEnAu == <<"e","n","-","A","U">>

\* outcomes of YouTubeTranscriptApi.get_transcript
ApiOk(segments) == [ok |-> TRUE, segments |-> segments, err |-> <<>>]

ApiErr(err) == [ok |-> FALSE, segments |-> <<>>, err |-> err]

ApiWelcome == ApiOk(<<SegWelcome, SegMusic, SegToday, SegCoffee>>)

ApiRick == ApiOk(<<SegGiveUp, SegLetDown>>)

ApiHello == ApiOk(<<SegHello>>)

ApiMusic == ApiOk([i \in 1..8 |-> SegMusic])

ApiEmpty == ApiOk(<<>>)

ApiResults ==
    {ApiWelcome, ApiRick, ApiHello, ApiMusic, ApiEmpty,
     ApiErr(ErrCloudProvider), ApiErr(ErrBlocked), ApiErr(ErrDisabled),
     ApiErr(ErrNoTranscript)}

NoApi == [ok |-> FALSE, segments |-> <<>>, err |-> <<"u","n","u","s","e","d">>]

\* decoded JSON values
NoJson == [kind |-> "invalid", hasEvents |-> FALSE, events |-> <<>>,
           hasBody |-> FALSE, body |-> <<>>]

Seg(utf8) == [hasUtf8 |-> TRUE, utf8 |-> utf8]

Event(hasStart, hasDur, hasUtf8, utf8, hasSegs, segs) ==
    [hasStart |-> hasStart, hasDur |-> hasDur, hasUtf8 |-> hasUtf8, utf8 |-> utf8,
     hasSegs |-> hasSegs, segs |-> segs]

Events(events) ==
    [kind |-> "object", hasEvents |-> TRUE, events |-> events,
     hasBody |-> FALSE, body |-> <<>>]

Json3Value ==
    Events(<<Event(TRUE, TRUE, FALSE, <<>>, TRUE,
                   <<Seg(SubSeq(Json3Payload, 62, 95))>>),
             Event(TRUE, TRUE, FALSE, <<>>, TRUE,
                   <<Seg(SubSeq(Json3Payload, 154, 179)),
                     Seg(SubSeq(Json3Payload, 192, 220))>>)>>)

JsonTextValue ==
    Events(<<Event(TRUE, TRUE, TRUE, SubSeq(JsonTextPayload, 69, 102), FALSE, <<>>),
             Event(TRUE, FALSE, FALSE, <<>>, TRUE,
                   <<Seg(SubSeq(JsonTextPayload, 140, 180)),
                     Seg(SubSeq(JsonTextPayload, 193, 230))>>)>>)

\* responses of session.get for a caption URL
Ok(content, json) == [kind |-> "ok", content |-> content, json |-> json]

NotOk(kind) == [kind |-> kind, content |-> <<>>, json |-> NoJson]

\* caption tracks, each with what its baseUrl answers
Track(name, languageCode, kind, baseUrl, resp) ==
    [name |-> name, languageCode |-> languageCode, kind |-> kind,
     hasBaseUrl |-> TRUE, baseUrl |-> baseUrl, resp |-> resp]

TrackEnManual == Track("en_manual", <<"e","n">>, "", UrlEn, Ok(XmlManual, NoJson))

TrackEnAuto == Track("en_auto", <<"e","n">>, "asr", UrlEnAsr, Ok(XmlAuto, NoJson))

TrackFrManual == Track("fr_manual", <<"f","r">>, "", UrlFr, Ok(XmlFrench, NoJson))

TrackEnUsNoUrl ==
    [name |-> "en_us_no_url", languageCode |-> <<"e","n","-","U","S">>, kind |-> "",
     hasBaseUrl |-> FALSE, baseUrl |-> <<>>, resp |-> NotOk("exc")]

\* a second track for each English tier
TrackEnGbManual ==
    Track("en_gb_manual", <<"e","n","-","G","B">>, "", UrlEn, Ok(XmlAuto, NoJson))

TrackEnUsAuto ==
    Track("en_us_auto", <<"e","n","-","U","S">>, "asr", UrlEnAsr, Ok(XmlManual, NoJson))

CoreTracks == {TrackEnManual, TrackEnAuto, TrackFrManual}

\* a single English manual track for each kind of payload
PayloadTracks ==
    {Track("en_srt", <<"e","n">>, "", UrlEn, Ok(SrtPayload, NoJson)),
     Track("en_mid", <<"e","n">>, "", UrlEn, Ok(XmlMid, NoJson)),
     Track("en_tiny", <<"e","n">>, "", UrlEn, Ok(XmlTiny, NoJson)),
     Track("en_json3", <<"e","n">>, "", UrlEn, Ok(Json3Payload, Json3Value)),
     Track("en_json_text", <<"e","n">>, "", UrlEn, Ok(JsonTextPayload, JsonTextValue)),
     Track("en_json_broken", <<"e","n">>, "", UrlEn, Ok(JsonBrokenPayload, NoJson)),
     Track("en_status", <<"e","n">>, "", UrlEn, NotOk("status")),
     Track("en_exc", <<"e","n">>, "", UrlEn, NotOk("exc")),
     Track("en_empty_text", <<"e","n">>, "", UrlEn, Ok(XmlEmptyText, NoJson)),
     Track("fr_translated", <<"f","r">>, "", UrlFrTranslated, Ok(XmlAuto, NoJson)),
     Track("de_caption", <<"d","e">>, "", UrlCaption, Ok(XmlFrench, NoJson))}

MaxTracks == 2

TrackLists ==
    UNION {[1..n -> CoreTracks] : n \in 0..MaxTracks}
        \cup {<<t>> : t \in PayloadTracks}
        \cup {<<TrackEnUsNoUrl>>, <<TrackEnUsNoUrl, TrackEnAuto>>}
        \cup {<<TrackEnManual, TrackEnGbManual>>, <<TrackEnGbManual, TrackEnManual>>,
              <<TrackEnAuto, TrackEnUsAuto>>, <<TrackEnUsAuto, TrackEnAuto>>}

\* the video page as the scrapers see it
Page(kind, config, tracks) == [kind |-> kind, config |-> config, tracks |-> tracks]

Pages ==
    {Page("ok", "ok", tracks) : tracks \in TrackLists}
        \cup {Page("ok", "absent", <<>>), Page("ok", "badjson", <<>>),
              Page("ok", "absent", <<TrackEnManual>>),
              Page("ok", "badjson", <<TrackFrManual, TrackEnAuto>>),
              Page("status", "absent", <<>>), Page("exc", "absent", <<>>)}

NoPage == Page("unused", "absent", <<>>)

\* the video page as the metadata probes see it
Meta(kind, title, date, channel) ==
    [kind |-> kind, title |-> title, date |-> date, channel |-> channel]

Metas ==
    {Meta("ok", "Rick Astley - Never Gonna Give You Up", "2009-10-25", "Rick Astley"),
     Meta("ok", "", "", ""), Meta("status", "", "", ""), Meta("exc", "", "", "")}

NoMeta == Meta("unused", "", "", "")

\* what videos().list().execute() answers
Video(kind, hasItems, title, date, channel) ==
    [kind |-> kind, hasItems |-> hasItems, title |-> title, date |-> date,
     channel |-> channel]

Videos ==
    {Video("ok", TRUE, "Never Gonna Give You Up", "2009-10-25", "Rick Astley"),
     Video("ok", TRUE, "", "", "Unknown Channel"),
     Video("ok", FALSE, "", "", ""), Video("exc", FALSE, "", "", "")}

NoVideo == Video("unused", FALSE, "", "", "")

VideosIf(requested) == IF requested THEN Videos ELSE {NoVideo}

\* the items of captions().list().execute(), each with what its download
\* answers
Caption(name, language, trackKind, resp) ==
    [name |-> name, language |-> language, trackKind |-> trackKind, resp |-> resp]

CaptionEnStandard == Caption("en_standard", <<"e","n">>, "standard", Ok(SrtPayload, NoJson))

CaptionEnAsr == Caption("en_asr", <<"e","n">>, "ASR", Ok(SrtAuto, NoJson))

CaptionEnAuStandard == Caption("en_au_standard", LangEnAu, "standard", Ok(SrtPayload, NoJson))

CaptionFrStandard == Caption("fr_standard", <<"f","r">>, "standard", Ok(SrtAuto, NoJson))

CoreCaptions == {CaptionEnStandard, CaptionEnAsr, CaptionEnAuStandard, CaptionFrStandard}

MaxCaptions == 2

CaptionLists ==
    {[kind |-> "ok", items |-> items] :
         items \in UNION {[1..n -> CoreCaptions] : n \in 0..MaxCaptions}
                       \cup {<<Caption("en_gb_short", <<"e","n","-","G","B">>, "standard",
                                       Ok(SrtShort, NoJson))>>,
                             <<Caption("en_us_exc", <<"e","n","-","U","S">>, "standard",
                                       NotOk("exc"))>>}}
        \cup {[kind |-> "exc", items |-> <<>>]}

NoCaptionList == [kind |-> "unused", items |-> <<>>]

\* what yt-dlp, pydub and Whisper do in one run
Audio(fails, err, text, title, uploader) ==
    [fails |-> fails, err |-> err, text |-> text, title |-> title, uploader |-> uploader]

AudioRuns ==
    {Audio("none", <<>>, text, "Never Gonna Give You Up", "Rick Astley") :
         text \in {WhisperTalk, WhisperMusic, WhisperBarely, WhisperShort, <<>>}}
        \cup {Audio(AudioSteps[i], err, <<>>, "", "") :
                  i \in {1, 2, 4, 5, 6}, err \in {ErrNotABot, ErrForbidden, ErrFfmpeg}}
        \cup {Audio("listdir", <<>>, <<>>, "", "")}

NoAudio == Audio("unused", <<>>, <<>>, "", "")

QualityLevels == {"Fast", "Balanced", "Best Quality", "Turbo"}

\* page requests that raise before one answers
MaxFailures == 3

(***************************************************************************)
(* The state machine: one action per public operation, from "idle" to      *)
(* "done", and Return back to "idle".                                      *)
(***************************************************************************)
VARIABLES pc, op, req, result, calls, fetched, selected, origin,
          youtube_api, whisper_model, current_model_size,
          workers, temp_dirs, enhance, applied

vars == <<pc, op, req, result, calls, fetched, selected, origin,
          youtube_api, whisper_model, current_model_size,
          workers, temp_dirs, enhance, applied>>

\* the state of the stepwise operations, further down: the concurrent audio
\* calls, TranscriptProcessor.enhance_transcript and the text functions
stepwise == <<workers, temp_dirs, enhance, applied>>

NoWorker ==
    [pc |-> "idle", quality_level |-> "none", temp_dir |-> "none",
     error_msg |-> <<>>, used |-> "none",
     outcome |-> [kind |-> "none", error |-> ""]]

NoEnhance ==
    [pc |-> "idle", raw_transcript |-> "none", chunks |-> <<>>, answers |-> <<>>,
     enhanced_chunks |-> <<>>,
     outcome |-> [kind |-> "none", pieces |-> <<>>, error |-> ""]]

\* an input of a text function: a text, or a caption payload with the
\* elements or the decoded value it was written from
NoInput == [kind |-> "none", content |-> <<>>, elements |-> <<>>, json |-> NoJson]

NoApplied ==
    [fn |-> "none", arg |-> NoInput, times |-> 0, once |-> <<>>, twice |-> <<>>]

Workers == {"first", "second"}

\* nothing stepwise is under way
StepwiseIdle ==
    /\ workers = [w \in Workers |-> NoWorker]
    /\ temp_dirs = {}
    /\ enhance = NoEnhance
    /\ applied = NoApplied

NoReq == [variant |-> "none", api |-> NoApi, meta |-> NoMeta, api2 |-> NoApi,
          page |-> NoPage, meta2 |-> NoMeta, failures |-> 0, video |-> NoVideo,
          list |-> NoCaptionList, audio |-> NoAudio, quality_level |-> "none"]

\* YouTubeHandler.__init__: the Data API client exists if YOUTUBE_API_KEY is
\* set and build succeeds; no Whisper model is loaded
Init ==
    /\ pc = "idle"
    /\ op = "none"
    /\ req = NoReq
    /\ result = NoneResult
    /\ calls = <<>>
    /\ fetched = <<>>
    /\ selected = "none"
    /\ origin = "none"
    /\ youtube_api \in BOOLEAN
    /\ whisper_model = "none"
    /\ current_model_size = "none"
    /\ StepwiseIdle

\* the operation name, called with request r, ends with outcome out
Finish(name, r, out) ==
    /\ pc' = "done"
    /\ op' = name
    /\ req' = r
    /\ result' = out.res
    /\ calls' = out.calls
    /\ fetched' = out.fetched
    /\ selected' = out.selected
    /\ origin' = out.origin
    /\ youtube_api' = youtube_api
    /\ UNCHANGED stepwise

\* the answers an operation gets to see: those it does not ask for are left
\* out
ApisIf(requested) == IF requested THEN ApiResults ELSE {NoApi}

PagesIf(requested) == IF requested THEN Pages ELSE {NoPage}

MetasIf(requested) == IF requested THEN Metas ELSE {NoMeta}

Times(out, name) == Cardinality({i \in 1..Len(out.calls) : out.calls[i] = name})

Requests(out, name) == Times(out, name) > 0

\* The actions.  Each operation is an action of the request r and the
\* outcome out, and is called with every request the environment allows.

\* CaptionScraper.extract_captions_from_page(video_id), server
ServerScraperExtract(r, out) ==
    /\ pc = "idle"
    /\ Finish("extract_captions_from_page", r, out)
    /\ UNCHANGED <<whisper_model, current_model_size>>

\* CaptionScraper.extract_captions_from_page(video_id), attached_assets
AttachedScraperExtract(r, out) ==
    /\ pc = "idle"
    /\ Finish("extract_captions_from_page", r, out)
    /\ UNCHANGED <<whisper_model, current_model_size>>

\* YouTubeHandler.extract_transcript(video_id), attached_assets
HandlerExtract(r, out) ==
    /\ pc = "idle"
    /\ Finish("extract_transcript", r, out)
    /\ UNCHANGED <<whisper_model, current_model_size>>

\* YouTubeHandler.extract_transcript(video_id), server
ServerHandlerExtract(r, out) ==
    /\ pc = "idle"
    /\ Finish("extract_transcript", r, out)
    /\ UNCHANGED <<whisper_model, current_model_size>>

\* extract_complete_transcript(video_id)
CompleteExtract(r, out) ==
    /\ pc = "idle"
    /\ Finish("extract_complete_transcript", r, out)
    /\ UNCHANGED <<whisper_model, current_model_size>>

\* YouTubeHandler.extract_transcript_with_api(video_id)
ApiExtract(r, out) ==
    /\ pc = "idle"
    /\ Finish("extract_transcript_with_api", r, out)
    /\ UNCHANGED <<whisper_model, current_model_size>>

\* YouTubeHandler.extract_transcript_from_audio(video_id, quality_level)
AudioExtract(r, out) ==
    /\ pc = "idle"
    /\ Finish("extract_transcript_from_audio", r, out)
    /\ whisper_model' = out.model
    /\ current_model_size' = out.model

ScraperRequest(variant, api, page, meta) ==
    [NoReq EXCEPT !.variant = variant, !.api = api, !.page = page, !.meta = meta]

ServerScraperCalls ==
    \E api \in ApiResults :
        \E page \in PagesIf(Requests(CaptionStrategies("server", api, NoPage), "page_get")) :
            LET tried == CaptionStrategies("server", api, page)
            IN  \E meta \in MetasIf(Requests(ExtractCaptionsFromPage(tried, NoMeta),
                                             "metadata_get")) :
                    ServerScraperExtract(ScraperRequest("server", api, page, meta),
                                         ExtractCaptionsFromPage(tried, meta))

AttachedScraperCalls ==
    \E api \in ApiResults :
        \E page \in PagesIf(Requests(CaptionStrategies("attached", api, NoPage), "page_get")) :
            LET tried == CaptionStrategies("attached", api, page)
            IN  \E meta \in MetasIf(Requests(ExtractCaptionsFromPage(tried, NoMeta),
                                             "metadata_get")) :
                    AttachedScraperExtract(ScraperRequest("attached", api, page, meta),
                                           ExtractCaptionsFromPage(tried, meta))

\* a scraper that is not to be called
NoScraper ==
    [res |-> NoneResult, calls |-> <<"extract_captions_from_page">>, fetched |-> <<>>,
     selected |-> "none", origin |-> "none"]

HandlerCalls ==
    \E api \in ApiResults :
        LET alone == ExtractTranscript(api, NoMeta, NoScraper)
            scraping == Requests(alone, "extract_captions_from_page")
        IN  \E api2 \in ApisIf(scraping) :
              \E page \in PagesIf(scraping /\ Requests(
                              CaptionStrategies("attached", api2, NoPage), "page_get")) :
                LET tried == CaptionStrategies("attached", api2, page)
                IN  \E meta2 \in MetasIf(scraping /\ Requests(
                                    ExtractCaptionsFromPage(tried, NoMeta), "metadata_get")) :
                      \E meta \in MetasIf(Requests(alone, "metadata_get")) :
                        HandlerExtract(
                            [NoReq EXCEPT !.variant = "attached", !.api = api,
                                          !.meta = meta, !.api2 = api2,
                                          !.page = page, !.meta2 = meta2],
                            ExtractTranscript(api, meta,
                                              ExtractCaptionsFromPage(tried, meta2)))

ServerHandlerCalls ==
    \E api \in ApiResults :
        ServerHandlerExtract([NoReq EXCEPT !.variant = "server", !.api = api],
                             ExtractTranscriptPlain(api))

CompleteCalls ==
    \E failures \in 0..MaxFailures :
        \E page \in PagesIf(failures < MaxRetries) :
            /\ page.kind # "exc"
            /\ CompleteExtract([NoReq EXCEPT !.failures = failures, !.page = page],
                               ExtractCompleteTranscript(failures, page))

ApiCalls ==
    \E video \in VideosIf(youtube_api) :
        \E list \in (IF youtube_api THEN CaptionLists ELSE {NoCaptionList}) :
            ApiExtract([NoReq EXCEPT !.variant = "attached", !.video = video,
                                     !.list = list],
                       ExtractTranscriptWithApi(youtube_api, video, list))

AudioRunCalls ==
    \E audio \in AudioRuns :
        \E video \in VideosIf(youtube_api /\ audio.fails = "none"
                                  /\ ~(Len(audio.text) = 0 \/ TooShort(audio.text))) :
            \E quality_level \in QualityLevels :
                AudioExtract([NoReq EXCEPT !.variant = "attached", !.video = video,
                                           !.audio = audio,
                                           !.quality_level = quality_level],
                             ExtractTranscriptFromAudio(youtube_api, whisper_model, video,
                                                        audio, quality_level))

\* the caller takes the outcome; nothing of the call outlives it
Return ==
    /\ pc = "done"
    /\ pc' = "idle"
    /\ op' = "none"
    /\ req' = NoReq
    /\ result' = NoneResult
    /\ calls' = <<>>
    /\ fetched' = <<>>
    /\ selected' = "none"
    /\ origin' = "none"
    /\ UNCHANGED <<youtube_api, whisper_model, current_model_size>>
    /\ UNCHANGED stepwise

Next ==
    \/ ServerScraperCalls
    \/ AttachedScraperCalls
    \/ HandlerCalls
    \/ ServerHandlerCalls
    \/ CompleteCalls
    \/ ApiCalls
    \/ AudioRunCalls
    \/ Return

Spec == Init /\ [][Next]_vars

(***************************************************************************)
(* The properties.  Each is stated on the outcome of one call: pc = "done" *)
(* with op the operation, req what the collaborators answered, result what *)
(* the caller got and calls the collaborators invoked.                     *)
(***************************************************************************)
Scrapes == Requests([calls |-> calls], "page_get")

\* the text strategy 1 hands to the chain: the segments of the managed API,
\* joined and normalised as the operation does it (<<>>: nothing)
StrategyOneText ==
    IF op = "extract_captions_from_page"
    THEN TryDirectTimedtextApi(req.variant, req.api).text
    ELSE IF req.variant = "attached"
    THEN CombineTranscriptSegments(req.api.segments)
    ELSE Strip(AppendSegments(req.api.segments, 1))

ChainCall == pc = "done" /\ op \in {"extract_captions_from_page", "extract_transcript"}

\* C1: every record an extraction operation returns has a transcript of at
\* least 50 characters after trimming.  The code checks the audio text
\* before _clean_whisper_transcript shortens it, so this fails.
C1_RecordMeetsThreshold ==
    (pc = "done" /\ result.kind = "record")
        => TrimmedLen(result.transcript) >= MinTranscriptLen

\* C2: in extract_captions_from_page and extract_transcript, when strategy 1
\* (the managed transcript API, its segments joined and normalised) gives at
\* least 50 trimmed characters, the only collaborators invoked are the one
\* get_transcript call and the metadata request: no page scrape, no caption
\* download, no second strategy.
C2_ShortCircuit ==
    (ChainCall /\ req.api.ok /\ TrimmedLen(StrategyOneText) >= MinTranscriptLen)
        => /\ calls \in {<<"get_transcript">>, <<"get_transcript", "metadata_get">>}
           /\ fetched = <<>>
           /\ origin = "managed_api"

C2_Witness ==
    /\ pc = "done"
    /\ op = "extract_captions_from_page"
    /\ req.api = ApiWelcome
    /\ TrimmedLen(StrategyOneText) >= MinTranscriptLen
    /\ result.kind = "record"
    /\ calls = <<"get_transcript", "metadata_get">>

\* C3: in extract_captions_from_page, when the managed API gives a text that
\* is not empty but shorter than 50 trimmed characters, the page is scraped
\* before the failure is reported.  The code scrapes only when strategy 1
\* gave nothing at all, so this fails.
C3_ShortTextStillScrapes ==
    (/\ pc = "done"
     /\ op = "extract_captions_from_page"
     /\ req.api.ok
     /\ Len(StrategyOneText) > 0
     /\ TrimmedLen(StrategyOneText) < MinTranscriptLen)
        => Scrapes

\* C4: in extract_transcript, a failure of the managed API alone never
\* reaches the caller as an exception or a terminal failure: when the call
\* ends without a record, the page-scrape strategy has been attempted.  The
\* code raises at once unless the error is classified as blocking, so this
\* fails.
C4_FailureOnlyAfterAllStrategies ==
    (/\ pc = "done"
     /\ op = "extract_transcript"
     /\ ~req.api.ok
     /\ result.kind # "record")
        => Scrapes

\* C5: when the managed API fails with a blocking error, failure is reported
\* only after the video page was fetched.  The attached scraper turns the
\* blocking error into the text AUTH_REQUIRED, which is truthy, so the page
\* is never fetched, and this fails.
C5_BlockedGoesOnToPageScrape ==
    (/\ ChainCall
     /\ ~req.api.ok
     /\ \/ op = "extract_captions_from_page" /\ ScraperSeesBlocking(req.api.err)
        \/ /\ op = "extract_transcript"
           /\ req.variant = "attached"
           /\ HandlerSeesBlocking(req.api.err)
     /\ result.kind # "record")
        => Scrapes

RickTranscript ==
    <<"N","e","v","e","r"," ","g","o","n","n","a"," ","g","i","v","e"," ",
      "y","o","u"," ","u","p"," ","n","e","v","e","r"," ","g","o","n","n",
      "a"," ","l","e","t"," ","y","o","u"," ","d","o","w","n">>

RickCall ==
    /\ pc = "done"
    /\ op = "extract_transcript"
    /\ req.variant = "attached"
    /\ req.api = ApiOk(<<SegGiveUp, SegLetDown>>)

C7_BlockedSrtScenario ==
    (/\ pc = "done"
     /\ op = "extract_transcript"
     /\ req.variant = "attached"
     /\ req.api = ApiErr(ErrBlocked)
     /\ req.api2 = ApiErr(ErrBlocked))
        => /\ result.kind = "record"
           /\ result.method = "web_scraping"
           /\ result.transcript = SrtLineOne \o <<" ">> \o SrtLineTwo

\* the extraction_method that names the strategy origin
MethodOf(strategy) ==
    CASE strategy = "managed_api" -> "api"
      [] strategy = "data_api" -> "api_captions"
      [] strategy = "page_scrape" -> "web_scraping"
      [] strategy = "whisper" -> "audio"
      [] OTHER -> "none"

\* C8: every returned record has an extraction_method, and it names the
\* strategy that produced the transcript.  extract_transcript returns a
\* record without the field, and the scraper labels the text of the managed
\* API 'web_scraping', so this fails.
C8_MethodNamesStrategy ==
    (pc = "done" /\ result.kind = "record") => result.method = MethodOf(origin)

\* an English track that is not auto-generated
IsEnglishManualTrack(t) == StartsWith(t.languageCode, LitEn) /\ t.kind # "asr"

IsEnglishManualCaption(c) == StartsWith(c.language, LitEn) /\ c.trackKind = "standard"

\* the selector of the operation has seen the track list
TracksSeen ==
    /\ pc = "done"
    /\ req.page.kind = "ok"
    /\ req.page.config = "ok"
    /\ \/ op = "extract_captions_from_page" /\ Scrapes
       \/ op = "extract_complete_transcript" /\ req.failures < MaxRetries

CaptionsSeen ==
    /\ pc = "done"
    /\ op = "extract_transcript_with_api"
    /\ req.list.kind = "ok"

\* C9: whenever the list holds an English manual track, each selector
\* selects an English manual track.  extract_transcript_with_api takes a
\* track as English only if its language is exactly en, en-US or en-GB, so
\* with an en-AU manual track and an en auto-generated one it selects the
\* auto-generated one, and this fails.
C9_ManualEnglishPreferred ==
    /\ (TracksSeen /\ \E i \in 1..Len(req.page.tracks) :
                          IsEnglishManualTrack(req.page.tracks[i]))
           => \E i \in 1..Len(req.page.tracks) :
                  /\ IsEnglishManualTrack(req.page.tracks[i])
                  /\ selected = req.page.tracks[i].name
    /\ (CaptionsSeen /\ \E i \in 1..Len(req.list.items) :
                            IsEnglishManualCaption(req.list.items[i]))
           => \E i \in 1..Len(req.list.items) :
                  /\ IsEnglishManualCaption(req.list.items[i])
                  /\ selected = req.list.items[i].name

\* C10: when the track list of the page is not empty and holds no track
\* whose language starts with en, the page-scrape resolvers select the
\* first track and request its baseUrl.  _extract_caption_data has no such
\* fallback, so this fails.
C10_FirstTrackFallback ==
    (/\ TracksSeen
     /\ Len(req.page.tracks) > 0
     /\ \A i \in 1..Len(req.page.tracks) :
            ~StartsWith(req.page.tracks[i].languageCode, LitEn))
        => /\ selected = req.page.tracks[1].name
           /\ req.page.tracks[1].hasBaseUrl
                  => \E i \in 1..Len(fetched) : fetched[i] = req.page.tracks[1].name

\* the page answer the metadata of the returned record was probed in
MetaSource ==
    IF op = "extract_transcript" /\ origin # "managed_api" THEN req.meta2 ELSE req.meta

PageMetadataCall ==
    /\ pc = "done"
    /\ result.kind = "record"
    /\ op \in {"extract_captions_from_page", "extract_transcript"}

ApiMetadataCall ==
    /\ pc = "done"
    /\ result.kind = "record"
    /\ op \in {"extract_transcript_with_api", "extract_transcript_from_audio"}

\* videos().list() answered with an item
VideoFound == youtube_api /\ req.video.kind = "ok" /\ req.video.hasItems

\* the synthesized titles, each naming the video identifier
FallbackTitles ==
    {"Video dQw4w9WgXcQ", "Coffee with Scott Adams - Episode dQw4w9WgXcQ"}

\* C11: metadata resolution fills every field it could not determine with
\* the fallback literal: a synthesized title naming the video identifier,
\* the current date, the placeholder 'Unknown Channel'.  The handler's
\* fallback channel is 'Scott Adams' and the scraper's fallback date is the
\* fixed '2024-01-01', so this fails.
C11_FallbackLiterals ==
    /\ PageMetadataCall
           => /\ (MetaSource.kind # "ok" \/ MetaSource.title = "")
                     => result.title \in FallbackTitles
              /\ (MetaSource.kind # "ok" \/ MetaSource.date = "")
                     => result.date = "today"
              /\ (MetaSource.kind # "ok" \/ MetaSource.channel = "")
                     => result.channel = "Unknown Channel"
    /\ (ApiMetadataCall /\ ~VideoFound)
           => /\ result.title \in FallbackTitles
              /\ result.date = "today"
              /\ result.channel = "Unknown Channel"

\* C12: whenever the metadata source of a returned record supplied a
\* parsable upload date, the record's date is that date as YYYY-MM-DD.
\* extract_transcript_from_audio parses the already formatted date with
\* '%Y%m%d', fails and takes the current date, so this fails.
C12_SourceDateIsKept ==
    /\ (PageMetadataCall /\ MetaSource.kind = "ok" /\ MetaSource.date # "")
           => result.date = MetaSource.date
    /\ (ApiMetadataCall /\ VideoFound /\ req.video.date # "")
           => result.date = req.video.date

\* the positions of the English manual and of the English auto-generated
\* tracks in the list the selector has seen
ManualPositions ==
    {i \in 1..Len(req.page.tracks) : IsEnglishManualTrack(req.page.tracks[i])}

AutoPositions ==
    {i \in 1..Len(req.page.tracks) :
         /\ StartsWith(req.page.tracks[i].languageCode, LitEn)
         /\ req.page.tracks[i].kind = "asr"}

ManualCaptionPositions ==
    {i \in 1..Len(req.list.items) : IsEnglishManualCaption(req.list.items[i])}

\* C20: with several tracks of one tier in the list (several English manual
\* tracks, or several English auto-generated ones and no manual one), every
\* selector picks the first of them.  The loop of
\* extract_complete_transcript has no break and replaces its choice by
\* every later manual track, so it picks the last, and this fails.
C20_FirstOfTierWins ==
    /\ (TracksSeen /\ Cardinality(ManualPositions) >= 2)
           => selected = req.page.tracks[SetMin(ManualPositions)].name
    /\ (TracksSeen /\ ManualPositions = {} /\ Cardinality(AutoPositions) >= 2)
           => selected = req.page.tracks[SetMin(AutoPositions)].name
    /\ (CaptionsSeen /\ Cardinality(ManualCaptionPositions) >= 2)
           => selected = req.list.items[SetMin(ManualCaptionPositions)].name


\* the text of the exception that ends a failing audio run
AudioErrorText ==
    IF req.audio.fails = "listdir" THEN LitNoAudioFile
    ELSE IF req.audio.fails # "none" THEN req.audio.err
    ELSE LitGeneratedTooShort

\* the audio run of the finished call failed: a step raised, no file was
\* downloaded, or Whisper's text is under the threshold
AudioCallFailed ==
    /\ pc = "done"
    /\ op = "extract_transcript_from_audio"
    /\ \/ req.audio.fails # "none"
       \/ Len(req.audio.text) = 0
       \/ TrimmedLen(req.audio.text) < MinTranscriptLen

\* the platform blocks the download: the bot-check phrase, 'blocked' or
\* 'forbidden' in the error text
IsBlockingText(error_msg) ==
    \/ Contains(error_msg, LitNotABot)
    \/ ContainsCI(error_msg, LitBlocked)
    \/ ContainsCI(error_msg, LitForbidden)

\* the two errors that advise the caption-based method
AdvisoryErrors ==
    {"YouTube is blocking audio downloads from this environment",
     "YouTube has blocked access to this video's audio"}

\* C16: a failing audio call raises; it raises one of the errors that advise
\* the caption-based method when the error text has the bot-check phrase,
\* 'blocked' or 'forbidden', and the generic 'Audio extraction failed'
\* otherwise; it never gives None or a record.
C16_BlockingSurfacedDistinctly ==
    AudioCallFailed =>
        /\ result.kind = "raise"
        /\ IsBlockingText(AudioErrorText) => result.error \in AdvisoryErrors
        /\ ~IsBlockingText(AudioErrorText) => result.error = "Audio extraction failed"

\* a download that the platform answers with HTTP 403 Forbidden has raised
\* the advisory error
C16_Witness ==
    /\ AudioCallFailed
    /\ req.audio.fails = "download"
    /\ req.audio.err = ErrForbidden
    /\ result.error = "YouTube has blocked access to this video's audio"


(***************************************************************************)
(* TranscriptProcessor.enhance_transcript, step by step.  A text is the    *)
(* sentences it is made of and its length in characters: who wrote it      *)
(* (the speaker, or the service that rewrote it), the sentences, numbered  *)
(* as they stand in the transcript, and the length.                        *)
(***************************************************************************)
\* the other variables: enhance_transcript does not touch them
handler_state ==
    <<pc, op, req, result, calls, fetched, selected, origin,
      youtube_api, whisper_model, current_model_size>>

\* max_chunk_size, the default of _split_transcript
MaxChunkSize == 3000

\* sentences of a transcript, at most
MaxSentences == 3

\* lengths of a sentence: two that fit a chunk together, one that fills a
\* chunk with the first, and one over max_chunk_size
SentenceLens == {1200, 1600, 1799, 3400}

RECURSIVE SumLens(_)
SumLens(sentences) ==
    IF sentences = <<>> THEN 0
    ELSE Head(sentences).len + SumLens(Tail(sentences))

\* len(current_chunk): every sentence is followed by one space
CurrentLen(current) == SumLens(current) + Len(current)

\* current_chunk.strip(), as a text: the trailing space is gone
ChunkOf(current) ==
    [by |-> "speaker", sentences |-> current,
     len |-> IF CurrentLen(current) = 0 THEN 0 ELSE CurrentLen(current) - 1]

\* if current_chunk.strip(): chunks.append(current_chunk.strip())
AppendIfText(chunks, current) ==
    IF ChunkOf(current).len > 0 THEN Append(chunks, ChunkOf(current)) ELSE chunks

\* the loop of _split_transcript over the sentences from i on
RECURSIVE SplitLoop(_, _, _, _)
SplitLoop(sentences, i, chunks, current) ==
    IF i > Len(sentences) THEN AppendIfText(chunks, current)
    ELSE IF CurrentLen(current) + sentences[i].len + 1 <= MaxChunkSize
    THEN SplitLoop(sentences, i + 1, chunks, Append(current, sentences[i]))
    ELSE SplitLoop(sentences, i + 1, AppendIfText(chunks, current), <<sentences[i]>>)

\* TranscriptProcessor._split_transcript on the cleaned-up transcript, given
\* as the sentences re.split finds in it
SplitTranscript(sentences) ==
    LET chunks == SplitLoop(sentences, 1, <<>>, <<>>)
    IN  IF chunks # <<>> THEN chunks ELSE <<ChunkOf(sentences)>>

\* an except branch that leaves the chunk out
DropChunk(enhanced_chunks, chunk) == enhanced_chunks

\* the except branch of enhance_transcript: the original chunk is used
KeepOriginalChunk(enhanced_chunks, chunk) == Append(enhanced_chunks, chunk)

\* TranscriptProcessor._process_chunk.  answer is what the service does:
\* the request raises ("api_error"), the message has no content
\* ("no_content", None.strip() raises) or it has a text of answer.len
\* characters after strip().
ProcessChunk(chunk, answer) ==
    IF answer.kind # "text" THEN [kind |-> "raise", error |-> "OpenAI API error"]
    ELSE IF 2 * answer.len < chunk.len
    THEN [kind |-> "raise", error |-> "OpenAI API error"]
    ELSE [kind |-> "return",
          text |-> [by |-> "service", sentences |-> chunk.sentences, len |-> answer.len]]

\* one pass of the loop of enhance_transcript
EnhanceOne(enhanced_chunks, chunk, answer) ==
    LET processed == ProcessChunk(chunk, answer)
    IN  IF processed.kind = "return" THEN Append(enhanced_chunks, processed.text)
        ELSE KeepOriginalChunk(enhanced_chunks, chunk)

\* the transcripts given to enhance_transcript: a blank one, one that is
\* empty after _basic_cleanup, and those of up to MaxSentences sentences
NumberedSentences(lens) == [i \in 1..Len(lens) |-> [id |-> i, len |-> lens[i]]]

Transcripts ==
    {[blank |-> TRUE, sentences |-> <<>>],
     [blank |-> FALSE, sentences |-> <<[id |-> 1, len |-> 0]>>]}
        \cup {[blank |-> FALSE, sentences |-> NumberedSentences(lens)] :
                  lens \in UNION {[1..n -> SentenceLens] : n \in 1..MaxSentences}}

\* what the service may answer for a chunk: the lengths around half of the
\* chunk's length, an empty text and a text as long as the chunk
Answers(chunk) ==
    {[kind |-> "api_error", len |-> 0], [kind |-> "no_content", len |-> 0]}
        \cup {[kind |-> "text", len |-> n] :
                  n \in {0, (chunk.len - 1) \div 2, (chunk.len + 1) \div 2, chunk.len}}

\* lines 24-29: the empty transcript is refused, the others are split
EnhanceCall ==
    /\ enhance.pc = "idle"
    /\ \E raw_transcript \in Transcripts :
           enhance' =
               IF raw_transcript.blank
               THEN [NoEnhance EXCEPT
                         !.pc = "done", !.raw_transcript = raw_transcript,
                         !.outcome = [kind |-> "raise", pieces |-> <<>>,
                                      error |-> "Raw transcript is empty or invalid"]]
               ELSE [NoEnhance EXCEPT
                         !.pc = "loop", !.raw_transcript = raw_transcript,
                         !.chunks = SplitTranscript(raw_transcript.sentences)]
    /\ UNCHANGED <<workers, temp_dirs, applied>>
    /\ UNCHANGED handler_state

\* lines 31-38: the next chunk is processed
EnhanceChunk ==
    /\ enhance.pc = "loop"
    /\ Len(enhance.answers) < Len(enhance.chunks)
    /\ LET chunk == enhance.chunks[Len(enhance.answers) + 1]
       IN  \E answer \in Answers(chunk) :
               enhance' =
                   [enhance EXCEPT
                        !.answers = Append(@, answer),
                        !.enhanced_chunks = EnhanceOne(@, chunk, answer)]
    /\ UNCHANGED <<workers, temp_dirs, applied>>
    /\ UNCHANGED handler_state

\* line 40: the pieces are joined and returned
EnhanceJoin ==
    /\ enhance.pc = "loop"
    /\ Len(enhance.answers) = Len(enhance.chunks)
    /\ enhance' =
           [enhance EXCEPT
                !.pc = "done",
                !.outcome = [kind |-> "text", pieces |-> enhance.enhanced_chunks,
                             error |-> ""]]
    /\ UNCHANGED <<workers, temp_dirs, applied>>
    /\ UNCHANGED handler_state

\* the caller has the result; the next call starts afresh
EnhanceReturn ==
    /\ enhance.pc = "done"
    /\ enhance' = NoEnhance
    /\ UNCHANGED <<workers, temp_dirs, applied>>
    /\ UNCHANGED handler_state

InitEnhance ==
    /\ pc = "idle"
    /\ op = "none"
    /\ req = NoReq
    /\ result = NoneResult
    /\ calls = <<>>
    /\ fetched = <<>>
    /\ selected = "none"
    /\ origin = "none"
    /\ youtube_api = FALSE
    /\ whisper_model = "none"
    /\ current_model_size = "none"
    /\ StepwiseIdle

NextEnhance ==
    \/ EnhanceCall
    \/ EnhanceChunk
    \/ EnhanceJoin
    \/ EnhanceReturn

SpecEnhance == InitEnhance /\ [][NextEnhance]_vars

\* the chunk at position i failed: _process_chunk raised for it
ChunkFailed(i) == ProcessChunk(enhance.chunks[i], enhance.answers[i]).kind = "raise"

\* C13: enhance_transcript has one output piece per chunk processed so far,
\* in the order of the chunks; the piece of a chunk whose enhancement failed
\* (the request raised, the answer had no content or was suspiciously short)
\* is the original chunk, the piece of any other chunk is the service's
\* text for that chunk; and a call on a non-empty transcript ends with the
\* joined text of as many pieces as there are chunks.
C13_OnePiecePerChunk ==
    /\ Len(enhance.enhanced_chunks) = Len(enhance.answers)
    /\ \A i \in 1..Len(enhance.answers) :
           /\ enhance.enhanced_chunks[i].sentences = enhance.chunks[i].sentences
           /\ ChunkFailed(i) => enhance.enhanced_chunks[i] = enhance.chunks[i]
           /\ ~ChunkFailed(i) =>
                  /\ enhance.enhanced_chunks[i].by = "service"
                  /\ enhance.enhanced_chunks[i].len = enhance.answers[i].len
    /\ (enhance.pc = "done" /\ ~enhance.raw_transcript.blank) =>
           /\ enhance.outcome.kind = "text"
           /\ Len(enhance.outcome.pieces) = Len(enhance.chunks)
           /\ enhance.outcome.pieces = enhance.enhanced_chunks

\* a finished call of three chunks whose second chunk failed on the
\* 'suspiciously short' check and whose other chunks were enhanced
C13_Witness ==
    /\ enhance.pc = "done"
    /\ Len(enhance.chunks) = 3
    /\ enhance.answers[2].kind = "text"
    /\ ChunkFailed(2)
    /\ ~ChunkFailed(1)
    /\ ~ChunkFailed(3)
    /\ enhance.outcome.pieces[2] = enhance.chunks[2]


(***************************************************************************)
(* YouTubeHandler.extract_transcript_from_audio, step by step, called by   *)
(* two workers on one handler.  The handler's whisper_model and            *)
(* _current_model_size are shared and not locked; temp_dirs are the        *)
(* temporary directories that exist.  A worker's temp_dir, error_msg and   *)
(* model_size are locals of its call; used is the size of the model its    *)
(* transcribe call ran on.                                                 *)
(***************************************************************************)
\* the variables the audio steps leave alone
caller_state == <<pc, op, req, result, calls, fetched, selected, origin, youtube_api>>

\* names tempfile.mkdtemp may give a new directory
TempNames == {"tmp_a", "tmp_b"}

\* the names no directory has and no running call holds
FreshNames ==
    TempNames \ (temp_dirs \cup {workers[w].temp_dir : w \in Workers})

\* errors a step of the audio run may raise
AudioErrors == {ErrNotABot, ErrForbidden, ErrFfmpeg}

\* what the caller gets: the kind of the result and the error raised
OutcomeOf(res) == [kind |-> res.kind, error |-> res.error]

\* a finally block that leaves the directory behind
LeaveTree(dirs, temp_dir) == dirs

\* the finally block, lines 297-304: shutil.rmtree(temp_dir) when temp_dir
\* is set and exists
RemoveTree(dirs, temp_dir) ==
    IF temp_dir # "none" /\ temp_dir \in dirs THEN dirs \ {temp_dir} ELSE dirs

\* the step of worker w to pc next, with the fields of its record changed
Step(w, changed) == workers' = [workers EXCEPT ![w] = changed]

\* line 147: the call starts, temp_dir = None
AudioBegin(w) ==
    /\ workers[w].pc = "idle"
    /\ \E quality_level \in QualityLevels :
           Step(w, [NoWorker EXCEPT !.pc = "mkdtemp", !.quality_level = quality_level])
    /\ UNCHANGED <<temp_dirs, whisper_model, current_model_size, enhance, applied>>
    /\ UNCHANGED caller_state

\* line 155: tempfile.mkdtemp() creates a directory, or raises
MakeTempDir(w) ==
    /\ workers[w].pc = "mkdtemp"
    /\ \/ \E name \in FreshNames :
              /\ Step(w, [workers[w] EXCEPT !.pc = "download", !.temp_dir = name])
              /\ temp_dirs' = temp_dirs \cup {name}
       \/ /\ Step(w, [workers[w] EXCEPT !.pc = "except", !.error_msg = ErrFfmpeg])
          /\ temp_dirs' = temp_dirs
    /\ UNCHANGED <<whisper_model, current_model_size, enhance, applied>>
    /\ UNCHANGED caller_state

\* lines 161-234: yt-dlp downloads into temp_dir and pydub converts the
\* file; a step raises, no file is there, or the audio is ready
DownloadAudio(w) ==
    /\ workers[w].pc = "download"
    /\ \/ Step(w, [workers[w] EXCEPT !.pc = "check_model"])
       \/ \E error_msg \in AudioErrors \cup {LitNoAudioFile} :
              Step(w, [workers[w] EXCEPT !.pc = "except", !.error_msg = error_msg])
    /\ UNCHANGED <<temp_dirs, whisper_model, current_model_size, enhance, applied>>
    /\ UNCHANGED caller_state

\* line 246: is a model of this size loaded?
CheckModel(w) ==
    /\ workers[w].pc = "check_model"
    /\ Step(w, [workers[w] EXCEPT
                    !.pc = IF \/ whisper_model = "none"
                              \/ current_model_size # ModelSize(workers[w].quality_level)
                           THEN "load_model" ELSE "transcribe"])
    /\ UNCHANGED <<temp_dirs, whisper_model, current_model_size, enhance, applied>>
    /\ UNCHANGED caller_state

\* line 249: self.whisper_model = whisper.load_model(model_size), or
\* load_model raises
LoadModel(w) ==
    /\ workers[w].pc = "load_model"
    /\ \/ /\ Step(w, [workers[w] EXCEPT !.pc = "store_size"])
          /\ whisper_model' = ModelSize(workers[w].quality_level)
       \/ /\ \E error_msg \in AudioErrors :
                 Step(w, [workers[w] EXCEPT !.pc = "except", !.error_msg = error_msg])
          /\ whisper_model' = whisper_model
    /\ UNCHANGED <<temp_dirs, current_model_size, enhance, applied>>
    /\ UNCHANGED caller_state

\* line 250: self._current_model_size = model_size
StoreSize(w) ==
    /\ workers[w].pc = "store_size"
    /\ Step(w, [workers[w] EXCEPT !.pc = "transcribe"])
    /\ current_model_size' = ModelSize(workers[w].quality_level)
    /\ UNCHANGED <<temp_dirs, whisper_model, enhance, applied>>
    /\ UNCHANGED caller_state

\* lines 256-282: self.whisper_model.transcribe(...) runs on the model the
\* attribute holds now; it raises, gives a text under the threshold, or a
\* text that is returned in a record
Transcribe(w) ==
    /\ workers[w].pc = "transcribe"
    /\ \/ Step(w, [workers[w] EXCEPT
                       !.pc = "finally", !.used = whisper_model,
                       !.outcome = [kind |-> "record", error |-> ""]])
       \/ \E error_msg \in AudioErrors \cup {LitGeneratedTooShort} :
              Step(w, [workers[w] EXCEPT
                           !.pc = "except", !.used = whisper_model,
                           !.error_msg = error_msg])
    /\ UNCHANGED <<temp_dirs, whisper_model, current_model_size, enhance, applied>>
    /\ UNCHANGED caller_state

\* lines 284-294: the except branch raises
AudioExcept(w) ==
    /\ workers[w].pc = "except"
    /\ Step(w, [workers[w] EXCEPT
                    !.pc = "finally",
                    !.outcome = OutcomeOf(AudioFailure(workers[w].error_msg))])
    /\ UNCHANGED <<temp_dirs, whisper_model, current_model_size, enhance, applied>>
    /\ UNCHANGED caller_state

\* lines 297-304: the finally block
AudioFinally(w) ==
    /\ workers[w].pc = "finally"
    /\ Step(w, [workers[w] EXCEPT !.pc = "exit"])
    /\ temp_dirs' = RemoveTree(temp_dirs, workers[w].temp_dir)
    /\ UNCHANGED <<whisper_model, current_model_size, enhance, applied>>
    /\ UNCHANGED caller_state

\* the call returns or raises; the worker may call again
AudioExit(w) ==
    /\ workers[w].pc = "exit"
    /\ Step(w, NoWorker)
    /\ UNCHANGED <<temp_dirs, whisper_model, current_model_size, enhance, applied>>
    /\ UNCHANGED caller_state

InitAudio ==
    /\ pc = "idle"
    /\ op = "none"
    /\ req = NoReq
    /\ result = NoneResult
    /\ calls = <<>>
    /\ fetched = <<>>
    /\ selected = "none"
    /\ origin = "none"
    /\ youtube_api = FALSE
    /\ whisper_model = "none"
    /\ current_model_size = "none"
    /\ StepwiseIdle

Begins == \E w \in Workers : AudioBegin(w)

MakesTempDir == \E w \in Workers : MakeTempDir(w)

Downloads == \E w \in Workers : DownloadAudio(w)

ChecksModel == \E w \in Workers : CheckModel(w)

LoadsWhisper == \E w \in Workers : LoadModel(w)

StoresSize == \E w \in Workers : StoreSize(w)

Transcribes == \E w \in Workers : Transcribe(w)

Excepts == \E w \in Workers : AudioExcept(w)

Finalizes == \E w \in Workers : AudioFinally(w)

Exits == \E w \in Workers : AudioExit(w)

NextAudio ==
    \/ Begins
    \/ MakesTempDir
    \/ Downloads
    \/ ChecksModel
    \/ LoadsWhisper
    \/ StoresSize
    \/ Transcribes
    \/ Excepts
    \/ Finalizes
    \/ Exits

SpecAudio == InitAudio /\ [][NextAudio]_vars

C15_ModelAccessSerialized ==
    /\ \A w \in Workers :
           workers[w].used # "none"
               => workers[w].used = ModelSize(workers[w].quality_level)
    /\ (\A w \in Workers : workers[w].pc # "store_size")
           => current_model_size = whisper_model


(***************************************************************************)
(* The text functions on their own: a normalizer or a parser is applied to *)
(* an input drawn at the start.  applied.once is what the function gives   *)
(* for the input, applied.twice what a normalizer gives for applied.once.  *)
(***************************************************************************)
\* the variables the text functions leave alone
service_state ==
    <<pc, op, req, result, calls, fetched, selected, origin,
      youtube_api, whisper_model, current_model_size, workers, temp_dirs, enhance>>

\* pieces a text is put together from, at most
MaxTokens == 3

\* the pieces: words, white space, an artifact, entities, escapes, brackets
Tokens ==
    {<<"H","e","l","l","o">>, <<" ">>, <<"\n">>, <<"[","M","u","s","i","c","]">>,
     <<"&","a","m","p",";">>, <<"a","m","p",";">>, <<"\\">>, <<"\"">>,
     <<"[">>, <<"]">>, <<"u","h">>}

TextInput(content) ==
    [kind |-> "text", content |-> content, elements |-> <<>>, json |-> NoJson]

TextInputs ==
    {TextInput(JoinFrom(pieces, 1, <<>>)) :
         pieces \in UNION {[1..n -> Tokens] : n \in 1..MaxTokens}}

Normalizers == {"server_clean_text", "attached_clean_text", "clean_transcript_text"}

\* the normalizer of that name
NormalizerOf(fn, text) ==
    CASE fn = "server_clean_text" -> CleanTextServer(text)
      [] fn = "attached_clean_text" -> CleanTextAttached(text)
      [] fn = "clean_transcript_text" -> CleanTranscriptText(text)

\* fn is applied to the input and gives out
Apply(fn, out) ==
    /\ applied.fn = "none"
    /\ applied' = [applied EXCEPT !.fn = fn, !.times = 1, !.once = out]
    /\ UNCHANGED service_state

\* the normalizer is applied to its own output and gives out
ApplyAgain(out) ==
    /\ applied.fn \in Normalizers
    /\ applied.times = 1
    /\ applied' = [applied EXCEPT !.times = 2, !.twice = out]
    /\ UNCHANGED service_state

\* CaptionScraper._clean_text(text), server/caption_scraper.py
ServerCleanTextCalls ==
    /\ applied.arg.kind = "text"
    /\ Apply("server_clean_text", CleanTextServer(applied.arg.content))

\* CaptionScraper._clean_text(text), attached_assets/caption_scraper.py
AttachedCleanTextCalls ==
    /\ applied.arg.kind = "text"
    /\ Apply("attached_clean_text", CleanTextAttached(applied.arg.content))

\* YouTubeHandler._clean_transcript_text(text)
CleanTranscriptTextCalls ==
    /\ applied.arg.kind = "text"
    /\ Apply("clean_transcript_text", CleanTranscriptText(applied.arg.content))

\* the same normalizer on the text it gave
NormalizeAgainCalls ==
    /\ applied.fn \in Normalizers
    /\ ApplyAgain(NormalizerOf(applied.fn, applied.once))

(***************************************************************************)
(* Timed-text XML payloads, written from their <text> elements.            *)
(***************************************************************************)
\* <text> elements of a document, at most
MaxElements == 3

\* a plain element
ElPlain ==
    <<"<","t","e","x","t"," ","s","t","a","r","t","=","\"","0","\""," ","d",
      "u","r","=","\"","2","\"",">","H","e","l","l","o"," ","t","h","e","r",
      "e","<","/","t","e","x","t",">">>

\* a short element
ElShort ==
    <<"<","t","e","x","t"," ","s","t","a","r","t","=","\"","2","\""," ","d",
      "u","r","=","\"","1","\"",">","H","i","<","/","t","e","x","t",">">>

\* an empty element
ElEmpty ==
    <<"<","t","e","x","t"," ","s","t","a","r","t","=","\"","3","\""," ","d",
      "u","r","=","\"","1","\"",">","<","/","t","e","x","t",">">>

\* an element with markup inside
ElMarkup ==
    <<"<","t","e","x","t"," ","s","t","a","r","t","=","\"","4","\""," ","d",
      "u","r","=","\"","2","\"",">","H","e","l","l","o"," ","<","b",">","y",
      "o","u","<","/","b",">"," ","a","l","l","<","/","t","e","x","t",">">>

\* the start of a timed-text document
XmlHead ==
    <<"<","?","x","m","l"," ","v","e","r","s","i","o","n","=","\"","1",".",
      "0","\""," ","e","n","c","o","d","i","n","g","=","\"","u","t","f","-",
      "8","\""," ","?",">","<","t","r","a","n","s","c","r","i","p","t",">">>

\* and its end
XmlFoot == <<"<","/","t","r","a","n","s","c","r","i","p","t",">">>

XmlElements == {ElPlain, ElShort, ElEmpty, ElMarkup}

\* the document of these elements
XmlDoc(elements) == XmlHead \o JoinFrom(elements, 1, <<>>) \o XmlFoot

XmlInput(elements) ==
    [kind |-> "xml", content |-> XmlDoc(elements), elements |-> elements,
     json |-> NoJson]

XmlInputs ==
    {XmlInput(elements) :
         elements \in UNION {[1..n -> XmlElements] : n \in 1..MaxElements}}

\* text_matches of the server _parse_xml_captions, line 223
XmlFragmentsServer(xml_content) == FindAllText(xml_content)

\* text_matches of extract_complete_transcript, line 149
XmlFragmentsComplete(caption_content) == FindAllText(caption_content)

\* the fragments the XML parser of that name builds its transcript from
XmlFragmentsOf(fn, content) ==
    CASE fn = "server_parse_xml" -> XmlFragmentsServer(content)
      [] fn = "attached_parse_xml" -> XmlFragmentsAttached(content)
      [] fn = "complete_parse_xml" -> XmlFragmentsComplete(content)

XmlParsers == {"server_parse_xml", "attached_parse_xml", "complete_parse_xml"}

\* CaptionScraper._parse_xml_captions, server/caption_scraper.py
ServerParseXmlCalls ==
    /\ applied.arg.kind = "xml"
    /\ Apply("server_parse_xml", XmlFragmentsServer(applied.arg.content))

\* CaptionScraper._parse_xml_captions, attached_assets/caption_scraper.py
AttachedParseXmlCalls ==
    /\ applied.arg.kind = "xml"
    /\ Apply("attached_parse_xml", XmlFragmentsAttached(applied.arg.content))

\* the XML parsing of extract_complete_transcript
CompleteParseXmlCalls ==
    /\ applied.arg.kind = "xml"
    /\ Apply("complete_parse_xml", XmlFragmentsComplete(applied.arg.content))

(***************************************************************************)
(* JSON3 payloads, written from their events.                              *)
(***************************************************************************)
\* events of a payload, at most
MaxEvents == 2

\* an event with one segment, one with two, a window event without
\* segments, an event with its text at event level, one whose segment has
\* an empty text, and one without tStartMs
JsonEvents ==
    {Event(TRUE, TRUE, FALSE, <<>>, TRUE, <<Seg(SegHello)>>),
     Event(TRUE, TRUE, FALSE, <<>>, TRUE, <<Seg(SegGiveUp), Seg(SegLetDown)>>),
     Event(TRUE, TRUE, FALSE, <<>>, FALSE, <<>>),
     Event(TRUE, TRUE, TRUE, SegHello, FALSE, <<>>),
     Event(TRUE, TRUE, FALSE, <<>>, TRUE, <<Seg(<<>>)>>),
     Event(FALSE, FALSE, FALSE, <<>>, TRUE, <<Seg(SegHello)>>)}

\* "key":"text"
JsonString(key, text) ==
    <<"\"">> \o key \o <<"\"",":","\"">> \o text \o <<"\"">>

\* {"utf8":"..."}
SegJson(seg) == <<"{">> \o JsonString(<<"u","t","f","8">>, seg.utf8) \o <<"}">>

\* "tStartMs":0
StartMember == <<"\"","t","S","t","a","r","t","M","s","\"",":","0">>

\* "dDurationMs":2000
DurationMember ==
    <<"\"","d","D","u","r","a","t","i","o","n","M","s","\"",":","2","0","0","0">>

\* "segs":[{...},{...}]
SegsMember(segs) ==
    <<"\"","s","e","g","s","\"",":","[">>
        \o JoinFrom([i \in 1..Len(segs) |-> SegJson(segs[i])], 1, <<",">>)
        \o <<"]">>

\* the members of an event object, in the order YouTube writes them
EventMembers(e) ==
    (IF e.hasStart THEN <<StartMember>> ELSE <<>>)
        \o (IF e.hasDur THEN <<DurationMember>> ELSE <<>>)
        \o (IF e.hasUtf8 THEN <<JsonString(<<"u","t","f","8">>, e.utf8)>> ELSE <<>>)
        \o (IF e.hasSegs THEN <<SegsMember(e.segs)>> ELSE <<>>)

EventJson(e) == <<"{">> \o JoinFrom(EventMembers(e), 1, <<",">>) \o <<"}">>

\* the text json.loads decodes to Events(events)
Json3Text(events) ==
    <<"{","\"","e","v","e","n","t","s","\"",":","[">>
        \o JoinFrom([i \in 1..Len(events) |-> EventJson(events[i])], 1, <<",">>)
        \o <<"]","}">>

JsonInput(events) ==
    [kind |-> "json", content |-> Json3Text(events), elements |-> <<>>,
     json |-> Events(events)]

JsonInputs ==
    {JsonInput(events) :
         events \in UNION {[1..n -> JsonEvents] : n \in 1..MaxEvents}}

\* the texts joined by the server _parse_json_captions, lines 259-272
JsonFragmentsServer(json) ==
    LET ev == IF json.hasEvents THEN EventTextsServer(json.events, 1) ELSE <<>>
    IN  IF Len(ev) > 0 THEN CleanNonEmptyServer(ev, 1) ELSE <<>>

\* the texts joined by the attached _parse_json_captions: those of the
\* events, or else those of the regex fallback, lines 288-328
JsonFragmentsAttached(json_content, json) ==
    LET ev == IF json.hasEvents THEN EventTextsAttached(json.events, 1) ELSE <<>>
    IN  IF Len(ev) > 0 THEN CleanAllAttached(ev)
        ELSE CleanAllAttached(
                 FindAllKey(json_content, <<"t","e","x","t">>)
                     \o FindAllKey(json_content, <<"u","t","f","8">>)
                     \o FindAllKey(json_content, <<"c","o","n","t","e","n","t">>))

\* the texts extract_captions_from_alternative_format returns; none when
\* it raises
JsonFragmentsAlternative(content, json) ==
    AlternativeFormat(Ok(content, json)).texts

JsonParsers == {"server_parse_json", "attached_parse_json", "alternative_format"}

\* CaptionScraper._parse_json_captions, server/caption_scraper.py
ServerParseJsonCalls ==
    /\ applied.arg.kind = "json"
    /\ Apply("server_parse_json", JsonFragmentsServer(applied.arg.json))

\* CaptionScraper._parse_json_captions, attached_assets/caption_scraper.py
AttachedParseJsonCalls ==
    /\ applied.arg.kind = "json"
    /\ Apply("attached_parse_json",
             JsonFragmentsAttached(applied.arg.content, applied.arg.json))

\* extract_captions_from_alternative_format(content)
AlternativeFormatCalls ==
    /\ applied.arg.kind = "json"
    /\ Apply("alternative_format",
             JsonFragmentsAlternative(applied.arg.content, applied.arg.json))

(***************************************************************************)
(* TranscriptProcessor._basic_cleanup, and texts with a marker in the      *)
(* middle.                                                                 *)
(***************************************************************************)
\* \d+:\d+ at i: the index after the match, 0 if there is none
StampAt(s, i) ==
    LET a == DigitsEnd(s, i)
        b == DigitsEnd(s, a + 1)
    IN  IF a > i /\ CharAt(s, a, ":") /\ b > a + 1 THEN b ELSE 0

\* \[\d+:\d+:\d+\] at i: the index after the match, 0 if there is none
BracketStampAt(s, i) ==
    LET a == DigitsEnd(s, i + 1)
        b == StampAt(s, a + 1)
    IN  IF CharAt(s, i, "[") /\ a > i + 1 /\ CharAt(s, a, ":") /\ b # 0
           /\ CharAt(s, b, "]")
        THEN b + 1 ELSE 0

RECURSIVE RemoveBracketStampsFrom(_, _)
RemoveBracketStampsFrom(s, i) ==
    LET k == FirstOf({j \in i..Len(s) : BracketStampAt(s, j) # 0})
    IN  IF k = 0 THEN From(s, i)
        ELSE SubSeq(s, i, k - 1) \o RemoveBracketStampsFrom(s, BracketStampAt(s, k))

RECURSIVE RemoveStampsFrom(_, _)
RemoveStampsFrom(s, i) ==
    LET k == FirstOf({j \in i..Len(s) : StampAt(s, j) # 0})
    IN  IF k = 0 THEN From(s, i)
        ELSE SubSeq(s, i, k - 1) \o RemoveStampsFrom(s, StampAt(s, k))

\* TranscriptProcessor._basic_cleanup
BasicCleanup(text) ==
    LET t1 == CollapseWs(text)
        t2 == RemoveBracketStampsFrom(t1, 1)
        t3 == RemoveStampsFrom(t2, 1)
        t4 == RemoveCI(t3, <<"[","M","u","s","i","c","]">>)
        t5 == RemoveCI(t4, <<"[","A","p","p","l","a","u","s","e","]">>)
        t6 == RemoveCI(t5, <<"[","L","a","u","g","h","t","e","r","]">>)
        t7 == RemoveCI(t6, <<"[","I","n","a","u","d","i","b","l","e","]">>)
    IN  Strip(t7)

\* what stands in the middle of a text: non-speech markers and time stamps
Markers ==
    {<<"[","M","u","s","i","c","]">>, <<"[","m","u","s","i","c","]">>,
     <<"[","L","a","u","g","h","t","e","r","]">>, <<"1","2",":","3","0">>,
     <<"[","0",":","0","1",":","0","2","]">>}

\* a word or nothing, white space or nothing, a marker, and the same again
MarkerInputs ==
    {TextInput(before \o gap1 \o marker \o gap2 \o after) :
         before \in {<<"H","e","l","l","o">>, <<>>},
         gap1 \in {<<" ">>, <<NBSP>>, <<>>},
         marker \in Markers,
         gap2 \in {<<" ">>, <<NBSP>>, <<>>},
         after \in {<<"y","o","u">>, <<>>}}

\* TranscriptProcessor._basic_cleanup(text)
BasicCleanupCalls ==
    /\ applied.arg.kind = "text"
    /\ Apply("basic_cleanup", BasicCleanup(applied.arg.content))

(***************************************************************************)
(* SRT payloads, written from their lines.                                 *)
(***************************************************************************)
\* lines of an SRT payload, at most
MaxLines == 3

\* a sequence number
SrtNumber == <<"1">>

\* a timing line
SrtTiming ==
    <<"0","0",":","0","0",":","0","1",",","0","0","0"," ","-","-",">"," ",
      "0","0",":","0","0",":","0","2",",","0","0","0">>

\* a blank line
SrtBlank == <<>>

\* a dialogue line
SrtPlain == <<"H","e","l","l","o"," ","t","h","e","r","e",".">>

\* a dialogue line with markup and an annotation
SrtMarked ==
    <<"<","i",">","T","h","e","n","<","/","i",">"," ","[","l","a","u","g",
      "h","s","]"," ","y","o","u">>

\* a dialogue line with an abbreviation
SrtAbbrev ==
    <<"i","n"," ","t","h","e"," ","U",".","S",".","A"," ","t","o","d","a",
      "y">>

\* a line that is an annotation only, with a carriage return
SrtAnnotation == <<"[","M","u","s","i","c","]","\r">>

SrtLines ==
    {SrtNumber, SrtTiming, SrtBlank, SrtPlain, SrtMarked, SrtAbbrev, SrtAnnotation}

SrtInput(lines) ==
    [kind |-> "srt", content |-> JoinFrom(lines, 1, <<"\n">>), elements |-> lines,
     json |-> NoJson]

SrtInputs ==
    {SrtInput(lines) : lines \in UNION {[1..n -> SrtLines] : n \in 1..MaxLines}}

\* YouTubeHandler._parse_srt_content(srt_content)
ParseSrtCalls ==
    /\ applied.arg.kind = "srt"
    /\ Apply("parse_srt_content", ParseSrtContent(applied.arg.content))

(***************************************************************************)
(* Segment lists of the transcript API, written from their texts.          *)
(***************************************************************************)
\* segments of a transcript list, at most
MaxSegments == 3

\* a segment with an allow-listed marker
SegWithMusic ==
    <<"H","e","l","l","o"," ","[","M","u","s","i","c","]"," ","t","h","e",
      "r","e">>

\* a segment with an allow-listed marker in capitals
SegWithApplause ==
    <<"[","A","P","P","L","A","U","S","E","]"," ","t","h","a","n","k","s">>

\* a segment with a parenthesised aside
SegAside ==
    <<"s","o"," ","(","s","h","e"," ","s","a","i","d",")"," ","y","e","s">>

\* a segment with a bracketed editorial mark
SegSic ==
    <<"t","h","e","y"," ","w","a","s"," ","[","s","i","c","]"," ","r","i",
      "g","h","t">>

\* a segment of speech only
SegPlain == <<"w","e","l","l"," ","t","h","e","n">>

SegmentTexts == {SegWithMusic, SegWithApplause, SegAside, SegSic, SegPlain}

SegmentsInput(texts) ==
    [kind |-> "segments", content |-> <<>>, elements |-> texts, json |-> NoJson]

SegmentsInputs ==
    {SegmentsInput(texts) : texts \in UNION {[1..n -> SegmentTexts] : n \in 1..MaxSegments}}

\* YouTubeHandler._combine_transcript_segments(transcript_list)
CombineTranscriptSegmentsCalls ==
    /\ applied.arg.kind = "segments"
    /\ Apply("combine_transcript_segments",
             CombineTranscriptSegments(applied.arg.elements))

(***************************************************************************)
(* What the JSON parsers return, on JSON3 payloads and on payloads that    *)
(* json.loads rejects.                                                     *)
(***************************************************************************)
\* a payload that is no JSON
NotJson == <<"n","o","t"," ","j","s","o","n"," ","a","t"," ","a","l","l">>

\* a JSON3 payload cut off before its last character
Truncated(events) == SubSeq(Json3Text(events), 1, Len(Json3Text(events)) - 1)

MalformedInput(content) ==
    [kind |-> "malformed", content |-> content, elements |-> <<>>, json |-> NoJson]

MalformedInputs ==
    {MalformedInput(NotJson)}
        \cup {MalformedInput(Truncated(events)) :
                  events \in UNION {[1..n -> JsonEvents] : n \in 1..MaxEvents}}

\* CaptionScraper._parse_json_captions(json_content), server: the optional
\* text it returns
ServerParseJsonReturns ==
    /\ applied.arg.kind \in {"json", "malformed"}
    /\ Apply("server_parse_json_captions",
             ParseJsonCaptionsServer(applied.arg.content, applied.arg.json))

\* CaptionScraper._parse_json_captions(json_content), attached
AttachedParseJsonReturns ==
    /\ applied.arg.kind \in {"json", "malformed"}
    /\ Apply("attached_parse_json_captions",
             ParseJsonCaptionsAttached(applied.arg.content, applied.arg.json))

\* extract_captions_from_alternative_format(content): whether it raised,
\* and the texts it returned
AlternativeFormatReturns ==
    /\ applied.arg.kind \in {"json", "malformed"}
    /\ Apply("extract_captions_from_alternative_format",
             AlternativeFormat(Ok(applied.arg.content, applied.arg.json)))

(***************************************************************************)
(* The format sniffing of _download_caption_file, on payloads of each      *)
(* format.                                                                 *)
(***************************************************************************)
\* the header line of a WebVTT payload
VttHeader == <<"W","E","B","V","T","T">>

VttInput(lines) ==
    [kind |-> "vtt", content |-> JoinFrom(<<VttHeader, <<>>>> \o lines, 1, <<"\n">>),
     elements |-> lines, json |-> NoJson]

VttInputs ==
    {VttInput(lines) : lines \in UNION {[1..n -> SrtLines] : n \in 1..(MaxLines - 1)}}

\* the branch _download_caption_file takes on a 200 response with that text
SniffedParser(content) ==
    IF Contains(content, <<"<","t","e","x","t">>) THEN "xml"
    ELSE IF Contains(content, <<"\"","t","e","x","t","\"">>) THEN "json"
    ELSE "plain"

DownloadDispatch(variant, arg) ==
    [parser |-> SniffedParser(arg.content),
     text |-> DownloadCaptionFile(variant, Ok(arg.content, arg.json))]

DispatchedKinds == {"text", "xml", "json", "srt", "vtt"}

\* CaptionScraper._download_caption_file(url), server/caption_scraper.py
ServerDownloadDispatches ==
    /\ applied.arg.kind \in DispatchedKinds
    /\ Apply("server_download_caption_file", DownloadDispatch("server", applied.arg))

\* CaptionScraper._download_caption_file(url), attached_assets/caption_scraper.py
AttachedDownloadDispatches ==
    /\ applied.arg.kind \in DispatchedKinds
    /\ Apply("attached_download_caption_file", DownloadDispatch("attached", applied.arg))

PureInputs == TextInputs \cup XmlInputs \cup JsonInputs \cup MarkerInputs \cup SrtInputs \cup SegmentsInputs \cup MalformedInputs \cup VttInputs

InitPure ==
    /\ pc = "idle"
    /\ op = "none"
    /\ req = NoReq
    /\ result = NoneResult
    /\ calls = <<>>
    /\ fetched = <<>>
    /\ selected = "none"
    /\ origin = "none"
    /\ youtube_api = FALSE
    /\ whisper_model = "none"
    /\ current_model_size = "none"
    /\ workers = [w \in Workers |-> NoWorker]
    /\ temp_dirs = {}
    /\ enhance = NoEnhance
    /\ applied \in {[NoApplied EXCEPT !.arg = input] : input \in PureInputs}

NextPure ==
    \/ ServerCleanTextCalls
    \/ AttachedCleanTextCalls
    \/ CleanTranscriptTextCalls
    \/ NormalizeAgainCalls
    \/ ServerParseXmlCalls
    \/ AttachedParseXmlCalls
    \/ CompleteParseXmlCalls
    \/ ServerParseJsonCalls
    \/ AttachedParseJsonCalls
    \/ AlternativeFormatCalls
    \/ BasicCleanupCalls
    \/ ParseSrtCalls
    \/ CombineTranscriptSegmentsCalls
    \/ ServerParseJsonReturns
    \/ AttachedParseJsonReturns
    \/ AlternativeFormatReturns
    \/ ServerDownloadDispatches
    \/ AttachedDownloadDispatches

SpecPure == InitPure /\ [][NextPure]_vars

\* C17: every normalizer gives, applied to its own output, that output
\* again.  The server _clean_text decodes '&amp;amp;' to '&amp;' and then to
\* '&', the attached one turns a backslash before \" into \" and then into
\* ", and _clean_transcript_text turns "[\n]" into "[ ]" and then into "",
\* so this fails for each of the three.
C17_NormalizeIdempotent ==
    applied.times = 2 => applied.twice = applied.once

\* C18: an XML parser builds its transcript from exactly one fragment per
\* <text> element of the document, in the order of the elements: as many
\* fragments as elements, the fragment at each position being what the
\* parser reads from the element at that position.  The server parsers
\* skip an empty element and one with markup inside, and the attached
\* parser skips short elements and reads a plain element twice, so this
\* fails.
C18_OneFragmentPerElement ==
    (applied.fn \in XmlParsers /\ applied.times = 1) =>
        /\ Len(applied.once) = Len(applied.arg.elements)
        /\ \A i \in 1..Len(applied.arg.elements) :
               XmlFragmentsOf(applied.fn, XmlDoc(<<applied.arg.elements[i]>>))
                   = <<applied.once[i]>>

\* the texts of all segments of the events from i on, in event and segment
\* order
RECURSIVE AllSegments(_, _)
AllSegments(events, i) ==
    IF i > Len(events) THEN <<>>
    ELSE (IF events[i].hasSegs
          THEN [k \in 1..Len(events[i].segs) |-> events[i].segs[k].utf8]
          ELSE <<>>)
             \o AllSegments(events, i + 1)

\* what the parser of that name makes of one segment's text
FragmentOf(fn, utf8) ==
    CASE fn = "server_parse_json" -> CleanTextServer(utf8)
      [] fn = "attached_parse_json" -> CleanTextAttached(utf8)
      [] fn = "alternative_format" -> utf8

\* C19: a JSON3 parser extracts as many fragments as the 'segs' arrays of
\* the payload's events have entries together, the fragment at each
\* position coming from the segment at that position in event and segment
\* order.  extract_captions_from_alternative_format looks for 'segs' in the
\* value of tStartMs and extracts nothing, and _parse_json_captions also
\* takes an event's own text, so this fails.
C19_FragmentsAreSegments ==
    (applied.fn \in JsonParsers /\ applied.times = 1) =>
        LET segments == AllSegments(applied.arg.json.events, 1)
        IN  /\ Len(applied.once) = Len(segments)
            /\ \A k \in 1..Len(segments) :
                   applied.once[k] = FragmentOf(applied.fn, segments[k])

\* the text has no run of white space, no non-breaking space and no white
\* space at either end
Collapsed(text) ==
    /\ \A i \in 1..Len(text) : text[i] # NBSP
    /\ \A i \in 1..(Len(text) - 1) : ~(IsSpace(text[i]) /\ IsSpace(text[i + 1]))
    /\ Len(text) > 0 => (~IsSpace(text[1]) /\ ~IsSpace(text[Len(text)]))

\* C24: what a normalizer gives has no run of two or more white space
\* characters, no non-breaking space and no white space at its ends, also
\* when a marker is removed from the middle of the text.  _clean_text and
\* _basic_cleanup collapse white space before they remove the markers, so
\* the spaces on both sides of a removed marker stay, and this fails.
C24_WhitespaceCollapsed ==
    (applied.fn \in Normalizers \cup {"basic_cleanup"} /\ applied.times >= 1)
        => Collapsed(applied.once)

\* the line is discarded: blank, a pure integer, or with the arrow in it
SrtDiscarded(line) ==
    \/ Len(Strip(line)) = 0
    \/ IsDigitStr(Strip(line))
    \/ Contains(line, <<"-","-",">">>)

\* the fragments of the lines from i on: of every line that is not
\* discarded, what is left of it without tags and bracketed annotations,
\* when that is not empty
RECURSIVE SrtFragments(_, _)
SrtFragments(lines, i) ==
    IF i > Len(lines) THEN <<>>
    ELSE LET fragment == Strip(RemoveGroup(SubTags(Strip(lines[i]), <<>>), "[", "]"))
         IN  (IF SrtDiscarded(lines[i]) \/ Len(fragment) = 0 THEN <<>>
              ELSE <<fragment>>)
                 \o SrtFragments(lines, i + 1)

\* C22: the text _parse_srt_content gives is the fragments of the payload's
\* lines in file order, separated by single spaces (runs of white space
\* inside a fragment counted as one space).  The parser also puts a space
\* after every '.', '!' or '?' that a capital letter follows, inside the
\* fragments as well, so this fails.
C22_SrtFragmentsInOrder ==
    (applied.fn = "parse_srt_content" /\ applied.times = 1) =>
        applied.once = Strip(CollapseWs(JoinSp(SrtFragments(applied.arg.elements, 1))))

\* bracketed and parenthesised text that is none of the allow-listed markers
AsideGroup == <<"(","s","h","e"," ","s","a","i","d",")">>
SicGroup == <<"[","s","i","c","]">>
OtherGroups == {AsideGroup, SicGroup}

\* C28: on the managed-API path every bracketed or parenthesised text of a
\* segment that is not an allow-listed marker is still in the combined
\* transcript.  _clean_transcript_text removes every bracketed and every
\* parenthesised group, so this fails.
C28_OtherBracketsPreserved ==
    (applied.fn = "combine_transcript_segments" /\ applied.times = 1) =>
        \A i \in 1..Len(applied.arg.elements) : \A group \in OtherGroups :
            Contains(applied.arg.elements[i], group) => Contains(applied.once, group)

\* C21: every JSON parser returns without raising, and returns something
\* that is not None; on a payload that json.loads rejects it returns the
\* empty text or the empty sequence.  The server parser returns None on such
\* a payload, the attached parser returns the texts its regular expressions
\* find in it, and extract_captions_from_alternative_format raises on an
\* event with a numeric tStartMs, so this fails.
C21_ParsersTotal ==
    applied.times = 1 =>
        /\ applied.fn \in {"server_parse_json_captions", "attached_parse_json_captions"} =>
               /\ applied.once.some
               /\ applied.arg.kind = "malformed" => applied.once.text = <<>>
        /\ applied.fn = "extract_captions_from_alternative_format" =>
               /\ ~applied.once.raised
               /\ applied.arg.kind = "malformed" => applied.once.texts = <<>>

\* the parser of the format a payload is in
ParserOfFormat(kind) ==
    CASE kind = "xml" -> "xml"
      [] kind = "json" -> "json"
      [] kind \in {"srt", "vtt"} -> "lines"
      [] OTHER -> "plain"

\* C23: _download_caption_file hands a payload to the parser of its format:
\* timed-text XML to the XML parser, JSON3 to the JSON parser, SRT and VTT to
\* the line parser, and only other text to the plain-text cleanup.  The
\* sniffing looks for "text" in quotes, which a JSON3 payload does not have,
\* and has no branch for SRT or VTT, so this fails.
C23_DispatchedByFormat ==
    (applied.fn \in {"server_download_caption_file", "attached_download_caption_file"}
         /\ applied.times = 1) =>
        applied.once.parser = ParserOfFormat(applied.arg.kind)

\* the requests of a finished extract_complete_transcript
CompleteDone == pc = "done" /\ op = "extract_complete_transcript"

PageGets == Cardinality({i \in 1..Len(calls) : calls[i] = "page_get"})

CaptionGets == Cardinality({i \in 1..Len(calls) : calls[i] = "caption_get"})

\* C25: extract_complete_transcript requests the video page at most
\* MaxRetries times, and once more than the first time only after a request
\* that raised; a response with another status than 200 ends it with None and
\* without another request; after MaxRetries requests that raised it ends
\* with None; the caption file is requested at most once.
C25_BoundedPageRetry ==
    CompleteDone =>
        /\ PageGets <= MaxRetries
        /\ PageGets <= req.failures + 1
        /\ (req.failures < MaxRetries /\ req.page.kind = "status") =>
               /\ PageGets = req.failures + 1
               /\ CaptionGets = 0
               /\ result = NoneResult
        /\ req.failures >= MaxRetries =>
               /\ PageGets = MaxRetries
               /\ CaptionGets = 0
               /\ result = NoneResult
        /\ CaptionGets <= 1

\* the third request raised as well, and the extraction ended with None
C25_Witness ==
    /\ CompleteDone
    /\ req.failures = MaxRetries
    /\ calls = <<"page_get", "page_get", "page_get">>
    /\ result = NoneResult

\* the sentences of the chunks from i on, in order
RECURSIVE SentencesOfChunks(_, _)
SentencesOfChunks(chunks, i) ==
    IF i > Len(chunks) THEN <<>>
    ELSE chunks[i].sentences \o SentencesOfChunks(chunks, i + 1)

\* the chunks are whole sentences, and all of them, each once and in order
ChunksReproduce(chunks, sentences) == SentencesOfChunks(chunks, 1) = sentences

\* C26: every chunk _split_transcript returns is at most max_chunk_size
\* characters long, and the chunks are the sentences of the cleaned-up
\* transcript, whole, each once and in order.  A sentence longer than
\* max_chunk_size becomes a chunk of its own, so the first part fails.
C26_ChunksWithinCap ==
    (enhance.pc # "idle" /\ ~enhance.raw_transcript.blank) =>
        /\ \A i \in 1..Len(enhance.chunks) : enhance.chunks[i].len <= MaxChunkSize
        /\ ChunksReproduce(enhance.chunks, enhance.raw_transcript.sentences)

\* the track of the scraped page with that name was downloaded, and its
\* payload parses to at least 50 characters after trimming
ParsesToEnough(track) ==
    LET caption_text == DownloadCaptionFile(req.variant, track.resp)
    IN  /\ \E i \in 1..Len(fetched) : fetched[i] = track.name
        /\ ~Falsy(caption_text)
        /\ TrimmedLen(caption_text.text) >= MinTranscriptLen

\* C27: when the page scrape of extract_captions_from_page downloads a
\* caption payload that parses to at least 50 trimmed characters, the
\* operation returns a record.  _extract_caption_data keeps a downloaded text
\* only when it has more than 100 trimmed characters, so this fails.
C27_UniformThreshold ==
    (pc = "done" /\ op = "extract_captions_from_page" /\ Scrapes) =>
        \A i \in 1..Len(req.page.tracks) :
            ParsesToEnough(req.page.tracks[i]) => result.kind = "record"

\* the page answered, and 'ytInitialPlayerResponse = {...};' is not in it
NoPlayerConfig ==
    /\ CompleteDone
    /\ req.failures < MaxRetries
    /\ req.page.kind = "ok"
    /\ req.page.config = "absent"

\* C30: when the page has no ytInitialPlayerResponse assignment,
\* extract_complete_transcript returns None, selects no track and requests no
\* caption file, whether the alternative captions pattern matches or not.
C30_NoConfigGivesNone ==
    NoPlayerConfig =>
        /\ result = NoneResult
        /\ selected = "none"
        /\ fetched = <<>>
        /\ CaptionGets = 0

\* the alternative pattern matched, and the result is None
C30_Witness ==
    /\ NoPlayerConfig
    /\ AltPatternMatches(req.page)
    /\ result = NoneResult
    /\ calls = <<"page_get">>

\* C29: extract_complete_transcript ends without raising, whatever the
\* requests, the page, its player configuration, its tracks and the caption
\* payload are; its result is None or a text of at least 50 characters
\* without non-breaking spaces, runs of white space or white space at its
\* ends.
C29_CompleteIsTotal ==
    CompleteDone =>
        \/ result = NoneResult
        \/ /\ result.kind = "text"
           /\ Len(result.transcript) >= MinTranscriptLen
           /\ Collapsed(result.transcript)

\* the alternative parser raised on the caption payload, and the call
\* returned None
C29_Witness ==
    /\ CompleteDone
    /\ fetched # <<>>
    /\ \E i \in 1..Len(req.page.tracks) :
           /\ req.page.tracks[i].name = fetched[1]
           /\ req.page.tracks[i].resp.kind = "ok"
           /\ CompleteFromCaptions(req.page.tracks[i].resp).kind = "raise"
    /\ result = NoneResult

=============================================================================
